---- MODULE Spec2Model ----
(***************************************************************************)
(* redgrep: regular expressions with Boolean operations, matched through   *)
(* Brzozowski derivatives (DFA) and Antimirov partial derivatives with     *)
(* bindings (TNFA).  The expression algebra, the normaliser, the           *)
(* derivative engines, the partition engine, the worklist builder and the  *)
(* matchers are translated from src/regexp.cc.                             *)
(***************************************************************************)
EXTENDS Integers, Sequences, FiniteSets, TLC

(***************************************************************************)
(* enum Kind, enum Mode, enum BindingType (regexp.h).  The numeric order   *)
(* of the kinds is what Compare orders expressions of different kinds by.  *)
(***************************************************************************)
kEmptySet == 0
kEmptyString == 1
kGroup == 2
kAnyByte == 3
kByte == 4
kByteRange == 5
kKleeneClosure == 6
kConcatenation == 7
kComplement == 8
kConjunction == 9
kDisjunction == 10
kCharacterClass == 11
kQuantifier == 12

kMinimal == 0
kPassive == 1
kMaximal == 2

kCancel == 0
kEpsilon == 1
kAppend == 2

\* The width of bitset<256>: the byte alphabet is 0 .. NumBytes - 1 (the
\* build sets -funsigned-char, so int byte = str[0] is never negative).
NumBytes == 256

\* The key of the "default" transition, and the representative of the
\* Sigma-based block.
DefaultByte == -1

(***************************************************************************)
(* Expression nodes.  kind_, data_ and norm_ of class Expression: data     *)
(* holds the payload that is not a subexpression (the byte, the byte       *)
(* range, or the Group's num, mode and capture), subs the subexpressions.  *)
(***************************************************************************)
Expression(kind, data, subs, norm) ==
  [kind |-> kind, data |-> data, subs |-> subs, norm |-> norm]

EmptySet == Expression(kEmptySet, <<>>, <<>>, TRUE)

EmptyString == Expression(kEmptyString, <<>>, <<>>, TRUE)

\* capture is kept as 0 / 1 so that the tuple order of Compare applies.
Group(num, sub, mode, capture) ==
  Expression(kGroup, <<num, mode, IF capture THEN 1 ELSE 0>>, <<sub>>, FALSE)

AnyByte == Expression(kAnyByte, <<>>, <<>>, TRUE)

Byte(byte) == Expression(kByte, <<byte>>, <<>>, TRUE)

ByteRange(min, max) == Expression(kByteRange, <<min, max>>, <<>>, TRUE)

KleeneClosureN(subs, norm) == Expression(kKleeneClosure, <<>>, subs, norm)

ConcatenationN(subs, norm) == Expression(kConcatenation, <<>>, subs, norm)

ComplementN(subs, norm) == Expression(kComplement, <<>>, subs, norm)

ConjunctionN(subs, norm) == Expression(kConjunction, <<>>, subs, norm)

DisjunctionN(subs, norm) == Expression(kDisjunction, <<>>, subs, norm)

KleeneClosure(x) == KleeneClosureN(<<x>>, FALSE)

Concatenation(x, y) == ConcatenationN(<<x, y>>, FALSE)

Complement(x) == ComplementN(<<x>>, FALSE)

Conjunction(x, y) == ConjunctionN(<<x, y>>, FALSE)

Disjunction(x, y) == DisjunctionN(<<x, y>>, FALSE)

\* characters is set<Rune> as the list of its members in increasing order;
\* data holds the complement flag as 0 / 1 and then the members.
CharacterClass(characters, complement) ==
  Expression(kCharacterClass, <<IF complement THEN 1 ELSE 0>> \o characters, <<>>, FALSE)

\* max is -1 when the quantifier has no upper bound.
Quantifier(sub, min, max) == Expression(kQuantifier, <<min, max>>, <<sub>>, FALSE)

\* Accessors of class Expression.
ExpSub(exp) == exp.subs[1]

ExpHead(exp) == exp.subs[1]

ExpTail(exp) == exp.subs[Len(exp.subs)]

GroupNum(exp) == exp.data[1]

GroupMode(exp) == exp.data[2]

GroupCapture(exp) == exp.data[3] = 1

ClassCharacters(exp) == Tail(exp.data)

ClassComplement(exp) == exp.data[1] = 1

QuantifierMin(exp) == exp.data[1]

QuantifierMax(exp) == exp.data[2]

AnyCharacter ==
  LET b1 == ByteRange(0, 127)
      bx == ByteRange(128, 191)
      b2 == ByteRange(192, 223)
      b3 == ByteRange(224, 239)
      b4 == ByteRange(240, 247)
  IN DisjunctionN(<<b1,
                    Concatenation(b2, bx),
                    Concatenation(b3, Concatenation(bx, bx)),
                    Concatenation(b4, Concatenation(bx, Concatenation(bx, bx)))>>,
                  FALSE)

\* Character(rune): the bytes of the UTF-8 encoding of the rune,
\* concatenated; for the runes of one or two bytes.
Character(character) ==
  IF character < 128 THEN Byte(character)
  ELSE Concatenation(Byte(192 + (character \div 64)), Byte(128 + (character % 64)))

(***************************************************************************)
(* Compare: kinds first, then payloads, then children lexicographically.   *)
(* The norm flag takes no part in it.                                      *)
(***************************************************************************)
CompareInt(x, y) == IF x < y THEN -1 ELSE IF x > y THEN 1 ELSE 0

\* "if (compare != 0) return compare;" followed by the rest of the comparison.
CompareThen(compare, rest) == IF compare # 0 THEN compare ELSE rest

RECURSIVE Compare(_, _)
RECURSIVE CompareSubs(_, _, _)

\* The lexicographical loop over the two subexpression lists, from index i.
CompareSubs(xs, ys, i) ==
  IF i > Len(xs) \/ i > Len(ys)
  THEN IF i > Len(xs) /\ i <= Len(ys) THEN -1
       ELSE IF i <= Len(xs) /\ i > Len(ys) THEN 1
       ELSE 0
  ELSE CompareThen(Compare(xs[i], ys[i]), CompareSubs(xs, ys, i + 1))

Compare(x, y) ==
  IF x.kind < y.kind THEN -1
  ELSE IF x.kind > y.kind THEN 1
  ELSE CASE x.kind \in {kEmptySet, kEmptyString, kAnyByte} -> 0
         [] x.kind = kGroup ->
              \* tuple<int, Exp, Mode, bool> order: num, sub, mode, capture.
              CompareThen(CompareInt(x.data[1], y.data[1]),
                CompareThen(Compare(x.subs[1], y.subs[1]),
                  CompareThen(CompareInt(x.data[2], y.data[2]),
                              CompareInt(x.data[3], y.data[3]))))
         [] x.kind = kByte -> CompareInt(x.data[1], y.data[1])
         [] x.kind = kByteRange ->
              IF x.data[1] # y.data[1]
              THEN CompareInt(x.data[1], y.data[1])
              ELSE CompareInt(x.data[2], y.data[2])
         [] OTHER -> CompareSubs(x.subs, y.subs, 1)

\* operator== and operator< on Exp (REDGREP_COMPARE_DEFINE_OPERATORS_ET_CETERA).
ExpEq(x, y) == Compare(x, y) = 0

ExpLt(x, y) == Compare(x, y) < 0

(***************************************************************************)
(* std::list<Exp> sort(), unique() and remove_if() as Normalised uses them.*)
(***************************************************************************)
\* The list a loop builds, as a sequence value.
List(f) == f \o <<>>

\* TRUE, once v has been computed.  TLC evaluates operator arguments lazily;
\* a loop tests this on what it has built so far, so that each iteration is
\* evaluated before the next one starts and not nested inside it.
Evaluated(v) == v = v

RECURSIVE InsertSorted(_, _)
\* Inserts x behind every element that is not greater than it (stable).
InsertSorted(sorted, x) ==
  IF sorted = <<>> THEN <<x>>
  ELSE IF ExpLt(x, sorted[1]) THEN <<x>> \o sorted
  ELSE <<sorted[1]>> \o InsertSorted(SubSeq(sorted, 2, Len(sorted)), x)

RECURSIVE SortFrom(_, _, _)
SortFrom(subs, i, sorted) ==
  IF i > Len(subs) THEN sorted
  ELSE SortFrom(subs, i + 1, InsertSorted(sorted, subs[i]))

\* Mutation: sort() left out.
ListSortNone(subs) == subs

ListSort(subs) == SortFrom(subs, 1, <<>>)

RECURSIVE UniqueFrom(_, _, _)
\* Drops every element equal to the element kept just before it.
UniqueFrom(subs, i, kept) ==
  IF i > Len(subs) THEN kept
  ELSE IF kept # <<>> /\ ExpEq(kept[Len(kept)], subs[i])
       THEN UniqueFrom(subs, i + 1, kept)
       ELSE UniqueFrom(subs, i + 1, Append(kept, subs[i]))

ListUnique(subs) == UniqueFrom(subs, 1, <<>>)

\* Mutation: unique() before sort().
UniqueSort(subs) == ListSort(ListUnique(subs))

\* subs.sort(); subs.unique();
SortUnique(subs) == ListUnique(ListSort(subs))

IsComplementOfEmptySet(sub) ==
  sub.kind = kComplement /\ ExpSub(sub).kind = kEmptySet

RECURSIVE RemoveIfFrom(_, _, _, _)
\* remove_if with the predicate "is of the absorbed form and subs.size() > 1":
\* the size is that of the list while it is being traversed.
RemoveIfFrom(subs, i, kept, absorbedConj) ==
  IF i > Len(subs) THEN kept
  ELSE LET size == Len(kept) + (Len(subs) - i + 1)
           hit  == /\ IF absorbedConj THEN IsComplementOfEmptySet(subs[i])
                                      ELSE subs[i].kind = kEmptySet
                   /\ size > 1
       IN IF hit THEN RemoveIfFrom(subs, i + 1, kept, absorbedConj)
          ELSE RemoveIfFrom(subs, i + 1, Append(kept, subs[i]), absorbedConj)

\* Mutation: no child is spliced.
FlattenNone(subs, i, kind) == subs

RECURSIVE Flatten(_, _, _)
\* The splice / push_back loop: a child of the parent's kind gives its own
\* children, any other child itself.
Flatten(subs, i, kind) ==
  IF i > Len(subs) THEN <<>>
  ELSE (IF subs[i].kind = kind THEN subs[i].subs ELSE <<subs[i]>>)
       \o Flatten(subs, i + 1, kind)

RECURSIVE Normalised(_)
RECURSIVE NormalisedSubs(_, _)
\* The children from index i on, each normalised.
NormalisedSubs(subs, i) ==
  IF i > Len(subs) THEN <<>>
  ELSE <<Normalised(subs[i])>> \o NormalisedSubs(subs, i + 1)

\* The kGroup case, sub being the normalised child.
NormalisedGroup(exp, sub) ==
  IF sub.kind = kEmptySet THEN EmptySet
  ELSE IF sub.kind = kEmptyString THEN EmptyString
  ELSE Group(GroupNum(exp), sub, GroupMode(exp), GroupCapture(exp))

\* Mutation: the closure of the empty set rewritten to the empty set.
NormalisedKleeneClosureEmpty(sub) ==
  IF sub.kind = kKleeneClosure THEN sub
  ELSE IF sub.kind = kEmptySet THEN EmptySet
  ELSE IF sub.kind = kEmptyString THEN EmptyString
  ELSE IF sub.kind = kAnyByte THEN ComplementN(<<EmptySet>>, TRUE)
  ELSE IF ExpEq(sub, AnyCharacter) THEN ComplementN(<<EmptySet>>, TRUE)
  ELSE KleeneClosureN(<<sub>>, TRUE)

\* The kKleeneClosure case, sub being the normalised child.
NormalisedKleeneClosure(sub) ==
  IF sub.kind = kKleeneClosure THEN sub
  ELSE IF sub.kind = kEmptySet THEN EmptyString
  ELSE IF sub.kind = kEmptyString THEN EmptyString
  ELSE IF sub.kind = kAnyByte THEN ComplementN(<<EmptySet>>, TRUE)
  ELSE IF ExpEq(sub, AnyCharacter) THEN ComplementN(<<EmptySet>>, TRUE)
  ELSE KleeneClosureN(<<sub>>, TRUE)

RECURSIVE Reassociate(_, _)
\* while (head->kind() == kConcatenation): << head, tail >> after the loop.
Reassociate(head, tail) ==
  IF head.kind = kConcatenation
  THEN Reassociate(ExpHead(head), Concatenation(ExpTail(head), tail))
  ELSE <<head, tail>>

\* The end of the kConcatenation case, head and tail being normalised.
NormalisedHeadTail(head, tail) ==
  IF head.kind = kEmptySet THEN head
  ELSE IF tail.kind = kEmptySet THEN tail
  ELSE IF head.kind = kEmptyString THEN tail
  ELSE IF tail.kind = kEmptyString THEN head
  ELSE ConcatenationN(<<head, tail>>, TRUE)

\* The kConcatenation case from the reassociated pair on.
NormalisedConcatenation(ht) == NormalisedHeadTail(ht[1], Normalised(ht[2]))

\* The kComplement case, sub being the normalised child.
NormalisedComplement(sub) ==
  IF sub.kind = kComplement THEN ExpSub(sub)
  ELSE ComplementN(<<sub>>, TRUE)

\* "if (subs.size() == 1) return subs.front();" and the rebuilt node.
NormalisedList(kind, subs) ==
  IF Len(subs) = 1 THEN subs[1]
  ELSE Expression(kind, <<>>, subs, TRUE)

\* The kConjunction case, ns being the normalised children.
NormalisedConjunction(ns) ==
  IF \E i \in 1..Len(ns) : ns[i].kind = kEmptySet THEN EmptySet
  ELSE NormalisedList(kConjunction,
         RemoveIfFrom(SortUnique(Flatten(ns, 1, kConjunction)), 1, <<>>, TRUE))

\* The kDisjunction case, ns being the normalised children.
NormalisedDisjunction(ns) ==
  IF \E i \in 1..Len(ns) : IsComplementOfEmptySet(ns[i])
  THEN ComplementN(<<EmptySet>>, TRUE)
  ELSE NormalisedList(kDisjunction,
         RemoveIfFrom(SortUnique(Flatten(ns, 1, kDisjunction)), 1, <<>>, FALSE))

Normalised(exp) ==
  IF exp.norm THEN exp
  ELSE CASE exp.kind = kGroup -> NormalisedGroup(exp, Normalised(ExpSub(exp)))
         [] exp.kind = kKleeneClosure ->
              NormalisedKleeneClosure(Normalised(ExpSub(exp)))
         [] exp.kind = kConcatenation ->
              NormalisedConcatenation(
                Reassociate(Normalised(ExpHead(exp)), ExpTail(exp)))
         [] exp.kind = kComplement -> NormalisedComplement(Normalised(ExpSub(exp)))
         [] exp.kind = kConjunction ->
              NormalisedConjunction(NormalisedSubs(exp.subs, 1))
         [] exp.kind = kDisjunction ->
              NormalisedDisjunction(NormalisedSubs(exp.subs, 1))
         [] OTHER -> exp

(***************************************************************************)
(* IsNullable                                                              *)
(***************************************************************************)
RECURSIVE IsNullable(_)
IsNullable(exp) ==
  CASE exp.kind = kEmptySet -> FALSE
    [] exp.kind = kEmptyString -> TRUE
    [] exp.kind = kGroup -> IsNullable(ExpSub(exp))
    [] exp.kind \in {kAnyByte, kByte, kByteRange} -> FALSE
    [] exp.kind = kKleeneClosure -> TRUE
    [] exp.kind = kConcatenation -> IsNullable(ExpHead(exp)) /\ IsNullable(ExpTail(exp))
    [] exp.kind = kComplement -> ~IsNullable(ExpSub(exp))
    [] exp.kind = kConjunction -> \A i \in 1..Len(exp.subs) : IsNullable(exp.subs[i])
    [] exp.kind = kDisjunction -> \E i \in 1..Len(exp.subs) : IsNullable(exp.subs[i])

(***************************************************************************)
(* Derivative (Brzozowski).  On a Group the switch breaks to abort(): the  *)
(* call returns no expression, which Aborted stands for.                   *)
(***************************************************************************)
Aborted == Expression(-1, <<>>, <<>>, TRUE)

RECURSIVE Derivative(_, _)
\* Mutation: the derivative of the tail behind a nullable head left out.
DerivativeHeadOnly(exp, byte) ==
  Concatenation(Derivative(ExpHead(exp), byte), ExpTail(exp))

\* The kConcatenation case.
DerivativeConcatenation(exp, byte) ==
  IF IsNullable(ExpHead(exp))
  THEN Disjunction(Concatenation(Derivative(ExpHead(exp), byte), ExpTail(exp)),
                   Derivative(ExpTail(exp), byte))
  ELSE Concatenation(Derivative(ExpHead(exp), byte), ExpTail(exp))

\* Mutation: a Group is transparent, its derivative is that of its operand.
DerivativeThroughGroup(exp, byte) ==
  CASE exp.kind = kEmptySet -> EmptySet
    [] exp.kind = kEmptyString -> EmptySet
    [] exp.kind = kGroup -> Derivative(ExpSub(exp), byte)
    [] exp.kind = kAnyByte -> EmptyString
    [] exp.kind = kByte ->
         IF exp.data[1] = byte THEN EmptyString ELSE EmptySet
    [] exp.kind = kByteRange ->
         IF exp.data[1] <= byte /\ byte <= exp.data[2] THEN EmptyString ELSE EmptySet
    [] exp.kind = kKleeneClosure ->
         Concatenation(Derivative(ExpSub(exp), byte), exp)
    [] exp.kind = kConcatenation -> DerivativeConcatenation(exp, byte)
    [] exp.kind = kComplement -> Complement(Derivative(ExpSub(exp), byte))
    [] exp.kind = kConjunction ->
         ConjunctionN(List([i \in 1..Len(exp.subs) |-> Derivative(exp.subs[i], byte)]),
                      FALSE)
    [] exp.kind = kDisjunction ->
         DisjunctionN(List([i \in 1..Len(exp.subs) |-> Derivative(exp.subs[i], byte)]),
                      FALSE)

Derivative(exp, byte) ==
  CASE exp.kind = kEmptySet -> EmptySet
    [] exp.kind = kEmptyString -> EmptySet
    [] exp.kind = kGroup -> Aborted
    [] exp.kind = kAnyByte -> EmptyString
    [] exp.kind = kByte ->
         IF exp.data[1] = byte THEN EmptyString ELSE EmptySet
    [] exp.kind = kByteRange ->
         IF exp.data[1] <= byte /\ byte <= exp.data[2] THEN EmptyString ELSE EmptySet
    [] exp.kind = kKleeneClosure ->
         Concatenation(Derivative(ExpSub(exp), byte), exp)
    [] exp.kind = kConcatenation -> DerivativeConcatenation(exp, byte)
    [] exp.kind = kComplement -> Complement(Derivative(ExpSub(exp), byte))
    [] exp.kind = kConjunction ->
         ConjunctionN(List([i \in 1..Len(exp.subs) |-> Derivative(exp.subs[i], byte)]),
                      FALSE)
    [] exp.kind = kDisjunction ->
         DisjunctionN(List([i \in 1..Len(exp.subs) |-> Derivative(exp.subs[i], byte)]),
                      FALSE)

(***************************************************************************)
(* OuterSets: a list of << InnerSet, Bindings >> pairs, the InnerSet being *)
(* a Conjunction node and the Bindings a list of << num, type >> pairs.    *)
(***************************************************************************)
\* The loop of Denormalised over the subexpressions of a Disjunction.
DenormalisedDisjunction(exp) ==
  List([i \in 1..Len(exp.subs) |->
          <<IF exp.subs[i].kind # kConjunction
            THEN ConjunctionN(<<exp.subs[i]>>, FALSE)
            ELSE exp.subs[i],
            <<>>>>])

\* Denormalised from the normalised expression on.
DenormalisedNormalised(exp) ==
  DenormalisedDisjunction(IF exp.kind # kDisjunction
                          THEN DisjunctionN(<<exp>>, FALSE) ELSE exp)

Denormalised(exp) == DenormalisedNormalised(Normalised(exp))

PartialConcatenation(x, y, initial) ==
  List([i \in 1..Len(x) |->
          <<ConjunctionN(List([j \in 1..Len(x[i][1].subs) |->
                                 Concatenation(x[i][1].subs[j], y)]),
                         FALSE),
            initial \o x[i][2]>>])

RECURSIVE CrossFrom(_, _, _, _)
\* The nested loops of PartialConjunction, from the pair (i, j).
CrossFrom(x, y, i, j) ==
  IF i > Len(x) THEN <<>>
  ELSE IF j > Len(y) THEN CrossFrom(x, y, i + 1, 1)
  ELSE <<<<Conjunction(x[i][1], y[j][1]), x[i][2] \o y[j][2]>>>>
       \o CrossFrom(x, y, i, j + 1)

PartialConjunction(x, y) == CrossFrom(x, y, 1, 1)

PartialDisjunction(x, y) == x \o y

RECURSIVE PartialComplementFrom(_, _, _)
\* The loop of PartialComplement from element i, outer being what the
\* earlier elements gave (<<>> standing for nullptr).
PartialComplementFrom(x, i, outer) ==
  IF i > Len(x) THEN outer
  ELSE LET tmp == List([j \in 1..Len(x[i][1].subs) |->
                          <<ConjunctionN(<<Complement(x[i][1].subs[j])>>, FALSE), <<>>>>])
       IN PartialComplementFrom(x, i + 1,
            IF i = 1 THEN tmp ELSE PartialConjunction(outer, tmp))

PartialComplement(x) == PartialComplementFrom(x, 1, <<>>)

RECURSIVE CancelBindings(_)
RECURSIVE CancelBindingsOfSubs(_, _)
CancelBindingsOfSubs(subs, i) ==
  IF i > Len(subs) THEN <<>>
  ELSE CancelBindings(subs[i]) \o CancelBindingsOfSubs(subs, i + 1)

CancelBindings(exp) ==
  CASE exp.kind = kGroup ->
         <<<<GroupNum(exp), kCancel>>>> \o CancelBindings(ExpSub(exp))
    [] exp.kind = kKleeneClosure -> CancelBindings(ExpSub(exp))
    [] exp.kind = kConcatenation ->
         CancelBindings(ExpHead(exp)) \o CancelBindings(ExpTail(exp))
    [] exp.kind \in {kConjunction, kDisjunction} -> CancelBindingsOfSubs(exp.subs, 1)
    [] OTHER -> <<>>

RECURSIVE EpsilonBindings(_)
RECURSIVE EpsilonBindingsOfSubs(_, _)
RECURSIVE EpsilonBindingsOfFirstNullable(_, _)
EpsilonBindingsOfSubs(subs, i) ==
  IF i > Len(subs) THEN <<>>
  ELSE EpsilonBindings(subs[i]) \o EpsilonBindingsOfSubs(subs, i + 1)

\* Mutation: the bindings of every nullable alternative are taken.
EpsilonBindingsOfNullable(subs, i) ==
  IF i > Len(subs) THEN <<>>
  ELSE (IF IsNullable(subs[i]) THEN EpsilonBindings(subs[i]) ELSE <<>>)
       \o EpsilonBindingsOfFirstNullable(subs, i + 1)

\* The loop of the kDisjunction case from alternative i on.
EpsilonBindingsOfFirstNullable(subs, i) ==
  IF i > Len(subs) THEN <<>>
  ELSE IF IsNullable(subs[i]) THEN EpsilonBindings(subs[i])
  ELSE EpsilonBindingsOfFirstNullable(subs, i + 1)

\* Mutation: the bindings of the operand of a Complement are taken too.
EpsilonBindingsOfComplement(exp) ==
  CASE exp.kind = kGroup ->
         <<<<GroupNum(exp), kEpsilon>>>> \o EpsilonBindings(ExpSub(exp))
    [] exp.kind = kKleeneClosure ->
         IF IsNullable(ExpSub(exp)) THEN EpsilonBindings(ExpSub(exp)) ELSE <<>>
    [] exp.kind = kConcatenation ->
         EpsilonBindings(ExpHead(exp)) \o EpsilonBindings(ExpTail(exp))
    [] exp.kind = kComplement -> EpsilonBindings(ExpSub(exp))
    [] exp.kind = kConjunction -> EpsilonBindingsOfSubs(exp.subs, 1)
    [] exp.kind = kDisjunction -> EpsilonBindingsOfFirstNullable(exp.subs, 1)
    [] OTHER -> <<>>

EpsilonBindings(exp) ==
  CASE exp.kind = kGroup ->
         <<<<GroupNum(exp), kEpsilon>>>> \o EpsilonBindings(ExpSub(exp))
    [] exp.kind = kKleeneClosure ->
         IF IsNullable(ExpSub(exp)) THEN EpsilonBindings(ExpSub(exp)) ELSE <<>>
    [] exp.kind = kConcatenation ->
         EpsilonBindings(ExpHead(exp)) \o EpsilonBindings(ExpTail(exp))
    [] exp.kind = kConjunction -> EpsilonBindingsOfSubs(exp.subs, 1)
    [] exp.kind = kDisjunction -> EpsilonBindingsOfFirstNullable(exp.subs, 1)
    [] OTHER -> <<>>

(***************************************************************************)
(* Partial (Antimirov, with Bindings)                                      *)
(***************************************************************************)
\* The kGroup case, outer being the partial derivative of the child.
PartialGroup(exp, outer) ==
  List([i \in 1..Len(outer) |->
          <<ConjunctionN(<<Group(GroupNum(exp), outer[i][1],
                                 GroupMode(exp), GroupCapture(exp))>>, FALSE),
            Append(outer[i][2], <<GroupNum(exp), kAppend>>)>>])

RECURSIVE Partial(_, _)
RECURSIVE PartialOfSubs(_, _, _, _)
\* The loops of the kConjunction and kDisjunction cases, from child i.
PartialOfSubs(subs, byte, i, conj) ==
  LET tmp == Partial(subs[i], byte)
  IN IF i = 1 THEN tmp
     ELSE IF conj THEN PartialConjunction(PartialOfSubs(subs, byte, i - 1, conj), tmp)
     ELSE PartialDisjunction(PartialOfSubs(subs, byte, i - 1, conj), tmp)

Partial(exp, byte) ==
  CASE exp.kind = kEmptySet -> Denormalised(EmptySet)
    [] exp.kind = kEmptyString -> Denormalised(EmptySet)
    [] exp.kind = kGroup ->
         PartialGroup(exp, Partial(ExpSub(exp), byte))
    [] exp.kind = kAnyByte -> Denormalised(EmptyString)
    [] exp.kind = kByte ->
         IF exp.data[1] = byte THEN Denormalised(EmptyString)
         ELSE Denormalised(EmptySet)
    [] exp.kind = kByteRange ->
         IF exp.data[1] <= byte /\ byte <= exp.data[2] THEN Denormalised(EmptyString)
         ELSE Denormalised(EmptySet)
    [] exp.kind = kKleeneClosure ->
         PartialConcatenation(Partial(ExpSub(exp), byte), exp,
                              CancelBindings(ExpSub(exp)))
    [] exp.kind = kConcatenation ->
         IF IsNullable(ExpHead(exp))
         THEN PartialDisjunction(
                PartialConcatenation(Partial(ExpHead(exp), byte), ExpTail(exp), <<>>),
                PartialConcatenation(Partial(ExpTail(exp), byte), EmptyString,
                                     EpsilonBindings(ExpHead(exp))))
         ELSE PartialConcatenation(Partial(ExpHead(exp), byte), ExpTail(exp), <<>>)
    [] exp.kind = kComplement -> PartialComplement(Partial(ExpSub(exp), byte))
    [] exp.kind = kConjunction -> PartialOfSubs(exp.subs, byte, Len(exp.subs), TRUE)
    [] exp.kind = kDisjunction -> PartialOfSubs(exp.subs, byte, Len(exp.subs), FALSE)

(***************************************************************************)
(* Partitions: a list of byte sets, the first Sigma-based (the bytes that  *)
(* are not in the default block), the others 0-based.                      *)
(***************************************************************************)
RECURSIVE IntersectionFrom(_, _, _, _)
\* Mutation: every set is pushed, the empty ones too.
IntersectionFromAny(x, y, i, j) ==
  IF i > Len(x) THEN <<>>
  ELSE IF j > Len(y) THEN IntersectionFrom(x, y, i + 1, 1)
  ELSE LET bs == IF i = 1
                 THEN IF j = 1 THEN x[i] \cup y[j] ELSE y[j] \ x[i]
                 ELSE IF j = 1 THEN x[i] \ y[j] ELSE y[j] \cap x[i]
       IN <<bs>> \o IntersectionFrom(x, y, i, j + 1)

\* The nested loops of Intersection, from the pair (i, j).
IntersectionFrom(x, y, i, j) ==
  IF i > Len(x) THEN <<>>
  ELSE IF j > Len(y) THEN IntersectionFrom(x, y, i + 1, 1)
  ELSE LET bs == IF i = 1
                 THEN IF j = 1 THEN x[i] \cup y[j] ELSE y[j] \ x[i]
                 ELSE IF j = 1 THEN x[i] \ y[j] ELSE y[j] \cap x[i]
       IN (IF (i = 1 /\ j = 1) \/ bs # {} THEN <<bs>> ELSE <<>>)
          \o IntersectionFrom(x, y, i, j + 1)

Intersection(x, y) == IntersectionFrom(x, y, 1, 1)

RECURSIVE Partitions(_)
RECURSIVE PartitionsOfSubs(_, _)
\* Mutation: the partitions of the tail behind a nullable head left out.
PartitionsHeadOnly(exp) == Partitions(ExpHead(exp))

\* The kConcatenation case.
PartitionsConcatenation(exp) ==
  IF IsNullable(ExpHead(exp))
  THEN Intersection(Partitions(ExpHead(exp)), Partitions(ExpTail(exp)))
  ELSE Partitions(ExpHead(exp))

\* The loop of the kConjunction and kDisjunction cases, up to child i.
PartitionsOfSubs(subs, i) ==
  IF i = 1 THEN Partitions(subs[1])
  ELSE Intersection(PartitionsOfSubs(subs, i - 1), Partitions(subs[i]))

Partitions(exp) ==
  CASE exp.kind \in {kEmptySet, kEmptyString, kAnyByte} -> <<{}>>
    [] exp.kind = kGroup -> Partitions(ExpSub(exp))
    [] exp.kind = kByte -> <<{exp.data[1]}, {exp.data[1]}>>
    [] exp.kind = kByteRange ->
         LET bs == {i \in 0..(NumBytes - 1) : exp.data[1] <= i /\ i <= exp.data[2]}
         IN <<bs, bs>>
    [] exp.kind = kKleeneClosure -> Partitions(ExpSub(exp))
    [] exp.kind = kConcatenation -> PartitionsConcatenation(exp)
    [] exp.kind = kComplement -> Partitions(ExpSub(exp))
    [] exp.kind \in {kConjunction, kDisjunction} ->
         PartitionsOfSubs(exp.subs, Len(exp.subs))

(***************************************************************************)
(* The post-parse rewrites of Parse (class Walker and its subclasses).     *)
(* Walker rebuilds every composite node, so the rebuilt nodes carry        *)
(* norm = false.                                                           *)
(***************************************************************************)
RECURSIVE FlattenSpine(_, _, _)
\* FlattenImpl, its first half: the tails of the left-skewed binary tree
\* pushed to the front of subs, then the children of what is left of exp
\* if it is of the kind, or else exp itself.
FlattenSpine(exp, kind, subs) ==
  IF exp.kind = kind /\ Len(exp.subs) = 2
    THEN FlattenSpine(ExpHead(exp), kind, <<ExpTail(exp)>> \o subs)
  ELSE IF exp.kind = kind THEN exp.subs \o subs
  ELSE <<exp>> \o subs

\* The walked sub in the place of subs[i]: its children spliced in when it
\* is of the kind, itself otherwise.
FlattenSpliced(acc, sub, kind) ==
  IF sub.kind = kind THEN acc \o sub.subs ELSE Append(acc, sub)

RECURSIVE FlattenConjunctionsAndDisjunctions(_)
RECURSIVE FlattenWalked(_, _, _, _)
\* FlattenImpl, its second half: every element of subs walked in turn.
FlattenWalked(subs, i, kind, acc) ==
  IF Evaluated(acc) /\ i > Len(subs) THEN acc
  ELSE FlattenWalked(subs, i + 1, kind,
         FlattenSpliced(acc, FlattenConjunctionsAndDisjunctions(subs[i]), kind))

FlattenImpl(exp) == FlattenWalked(FlattenSpine(exp, exp.kind, <<>>), 1, exp.kind, <<>>)

FlattenConjunctionsAndDisjunctions(exp) ==
  CASE exp.kind = kGroup ->
         Group(GroupNum(exp), FlattenConjunctionsAndDisjunctions(ExpSub(exp)),
               GroupMode(exp), GroupCapture(exp))
    [] exp.kind = kKleeneClosure ->
         KleeneClosure(FlattenConjunctionsAndDisjunctions(ExpSub(exp)))
    [] exp.kind = kConcatenation ->
         Concatenation(FlattenConjunctionsAndDisjunctions(ExpHead(exp)),
                       FlattenConjunctionsAndDisjunctions(ExpTail(exp)))
    [] exp.kind = kComplement ->
         Complement(FlattenConjunctionsAndDisjunctions(ExpSub(exp)))
    [] exp.kind = kConjunction -> ConjunctionN(FlattenImpl(exp), FALSE)
    [] exp.kind = kDisjunction -> DisjunctionN(FlattenImpl(exp), FALSE)
    [] exp.kind = kQuantifier ->
         Quantifier(FlattenConjunctionsAndDisjunctions(ExpSub(exp)),
                    QuantifierMin(exp), QuantifierMax(exp))
    [] OTHER -> exp

RECURSIVE StripGroups(_)
StripGroups(exp) ==
  CASE exp.kind = kGroup -> StripGroups(ExpSub(exp))
    [] exp.kind = kKleeneClosure -> KleeneClosure(StripGroups(ExpSub(exp)))
    [] exp.kind = kConcatenation ->
         Concatenation(StripGroups(ExpHead(exp)), StripGroups(ExpTail(exp)))
    [] exp.kind = kComplement -> Complement(StripGroups(ExpSub(exp)))
    [] exp.kind = kConjunction ->
         ConjunctionN(List([i \in 1..Len(exp.subs) |-> StripGroups(exp.subs[i])]), FALSE)
    [] exp.kind = kDisjunction ->
         DisjunctionN(List([i \in 1..Len(exp.subs) |-> StripGroups(exp.subs[i])]), FALSE)
    [] exp.kind = kQuantifier ->
         Quantifier(StripGroups(ExpSub(exp)), QuantifierMin(exp), QuantifierMax(exp))
    [] OTHER -> exp

RECURSIVE ApplyGroups(_)
ApplyGroups(exp) ==
  CASE exp.kind = kGroup ->
         Group(GroupNum(exp), ApplyGroups(ExpSub(exp)), GroupMode(exp), GroupCapture(exp))
    [] exp.kind = kKleeneClosure -> KleeneClosure(ApplyGroups(ExpSub(exp)))
    [] exp.kind = kConcatenation ->
         Concatenation(ApplyGroups(ExpHead(exp)), ApplyGroups(ExpTail(exp)))
    [] exp.kind = kComplement ->
         Group(-1, Complement(ApplyGroups(ExpSub(exp))), kMaximal, FALSE)
    [] exp.kind = kConjunction ->
         ConjunctionN(List([i \in 1..Len(exp.subs) |-> ApplyGroups(exp.subs[i])]), FALSE)
    [] exp.kind = kDisjunction ->
         IF ExpEq(exp, AnyCharacter) THEN exp
         ELSE DisjunctionN(List([i \in 1..Len(exp.subs) |->
                                   Group(-1, ApplyGroups(exp.subs[i]), kPassive, FALSE)]),
                           FALSE)
    [] exp.kind = kQuantifier ->
         Quantifier(ApplyGroups(ExpSub(exp)), QuantifierMin(exp), QuantifierMax(exp))
    [] OTHER -> exp

\* NumberGroups threads num_, modes_ and captures_ through the walk: w is
\* [num, modes, captures], and a walk gives [exp, w].

\* The walker's members after WalkGroup has numbered exp and before it walks
\* the child.
NumberGroup(exp, w) ==
  [num |-> w.num + 1,
   modes |-> Append(w.modes, GroupMode(exp)),
   captures |-> IF GroupCapture(exp) THEN Append(w.captures, w.num) ELSE w.captures]

\* return Group(num, sub, mode, capture), sub being the walk of the child.
NumberedGroup(exp, num, sub) ==
  [exp |-> Group(num, sub.exp, GroupMode(exp), GroupCapture(exp)), w |-> sub.w]

\* The composite node rebuilt from the walk r = [subs, w] of its children.
Rebuilt(exp, r) == [exp |-> Expression(exp.kind, exp.data, r.subs, FALSE), w |-> r.w]

\* subs.push_back(sub) after the walk of one more child.
Walked(acc, sub) == [subs |-> Append(acc.subs, sub.exp), w |-> sub.w]

RECURSIVE NumberGroups(_, _)
RECURSIVE NumberGroupsOfSubs(_, _, _)
\* The children from index i on, walked in order; acc is [subs, w] so far.
NumberGroupsOfSubs(subs, i, acc) ==
  IF i > Len(subs) THEN acc
  ELSE NumberGroupsOfSubs(subs, i + 1, Walked(acc, NumberGroups(subs[i], acc.w)))

NumberGroups(exp, w) ==
  CASE exp.kind = kGroup ->
         NumberedGroup(exp, w.num, NumberGroups(ExpSub(exp), NumberGroup(exp, w)))
    [] exp.kind \in {kKleeneClosure, kConcatenation, kComplement,
                     kConjunction, kDisjunction, kQuantifier} ->
         Rebuilt(exp, NumberGroupsOfSubs(exp.subs, 1, [subs |-> <<>>, w |-> w]))
    [] OTHER -> [exp |-> exp, w |-> w]

\* The walker's members when no Group has been numbered.
NoGroups == [num |-> 0, modes |-> <<>>, captures |-> <<>>]

\* WalkCharacterClass: the disjunction of the members and, for [^...], its
\* complement conjoined with AnyCharacter.
ExpandedClass(tmp, complement) ==
  IF complement THEN Conjunction(Complement(tmp), AnyCharacter) ELSE tmp

RECURSIVE ExpandCharacterClasses(_)
ExpandCharacterClasses(exp) ==
  CASE exp.kind = kCharacterClass ->
         ExpandedClass(DisjunctionN(List([i \in 1..Len(ClassCharacters(exp)) |->
                                            Character(ClassCharacters(exp)[i])]), FALSE),
                       ClassComplement(exp))
    [] exp.kind = kGroup ->
         Group(GroupNum(exp), ExpandCharacterClasses(ExpSub(exp)),
               GroupMode(exp), GroupCapture(exp))
    [] exp.kind \in {kKleeneClosure, kConcatenation, kComplement,
                     kConjunction, kDisjunction, kQuantifier} ->
         Expression(exp.kind, exp.data,
                    List([i \in 1..Len(exp.subs) |-> ExpandCharacterClasses(exp.subs[i])]),
                    FALSE)
    [] OTHER -> exp

\* Exp tmp before it is assigned: the null pointer.
NoExp == Expression(-1, <<>>, <<>>, FALSE)

\* tmp = tmp == nullptr ? sub : Concatenation(sub, tmp)
Repeated(sub, tmp) == IF tmp = NoExp THEN sub ELSE Concatenation(sub, tmp)

RECURSIVE Optional(_, _, _, _)
\* while (max > min): one more optional copy of sub.
Optional(sub, tmp, min, max) ==
  IF Evaluated(tmp) /\ max > min
    THEN Optional(sub, Disjunction(EmptyString, Repeated(sub, tmp)), min, max - 1)
  ELSE tmp

RECURSIVE Required(_, _, _)
\* while (min > 0): one more copy of sub.
Required(sub, tmp, min) ==
  IF Evaluated(tmp) /\ min > 0 THEN Required(sub, Repeated(sub, tmp), min - 1) ELSE tmp

\* tmp == nullptr ? EmptyString() : tmp
Expanded(tmp) == IF tmp = NoExp THEN EmptyString ELSE tmp

\* WalkQuantifier on the walked sub.
ExpandedQuantifier(sub, min, max) ==
  Expanded(Required(sub,
                    Optional(sub, IF max = -1 THEN KleeneClosure(sub) ELSE NoExp, min, max),
                    min))

RECURSIVE ExpandQuantifiers(_)
ExpandQuantifiers(exp) ==
  CASE exp.kind = kQuantifier ->
         ExpandedQuantifier(ExpandQuantifiers(ExpSub(exp)),
                            QuantifierMin(exp), QuantifierMax(exp))
    [] exp.kind = kGroup ->
         Group(GroupNum(exp), ExpandQuantifiers(ExpSub(exp)),
               GroupMode(exp), GroupCapture(exp))
    [] exp.kind \in {kKleeneClosure, kConcatenation, kComplement,
                     kConjunction, kDisjunction} ->
         Expression(exp.kind, exp.data,
                    List([i \in 1..Len(exp.subs) |-> ExpandQuantifiers(exp.subs[i])]),
                    FALSE)
    [] OTHER -> exp

\* Parse(str, &exp): the group-free expression of a parse tree.
Parse1(tree) ==
  ExpandQuantifiers(ExpandCharacterClasses(
    StripGroups(FlattenConjunctionsAndDisjunctions(tree))))

\* The walkers that follow NumberGroups, applied to its result r = [exp, w].
Expand(r) == [exp |-> ExpandQuantifiers(ExpandCharacterClasses(r.exp)), w |-> r.w]

\* Parse(str, &exp, &modes, &captures): [exp, w] with w.modes and w.captures.
Parse2(tree) ==
  Expand(NumberGroups(ApplyGroups(FlattenConjunctionsAndDisjunctions(tree)), NoGroups))

(***************************************************************************)
(* CompileImpl.  states is map<Exp, int> kept as the list of its keys in   *)
(* the order of their ids (the id of states[i] is i - 1); fa holds the     *)
(* members of FA / DFA / TNFA.                                             *)
(***************************************************************************)
RECURSIVE FindState(_, _, _)
\* The id exp has in states, or -1.
FindState(states, exp, i) ==
  IF i > Len(states) THEN -1
  ELSE IF ExpEq(states[i], exp) THEN i - 1
  ELSE FindState(states, exp, i + 1)

\* Mutation: an expression gets a new state and is queued whether or not it
\* has a state already.
InsertedAsNew(c, exp, found) ==
  [c  |-> [c EXCEPT !.states = Append(@, exp), !.queue = Append(@, exp)],
   id |-> Len(c.states)]

\* Mutation: the first state is queued again when it is inserted.
InsertedAndQueued(c, exp, found) ==
  IF found >= 0 THEN [c |-> c, id |-> found]
  ELSE [c  |-> [c EXCEPT !.states = Append(@, exp),
                         !.queue = Append(@, exp)],
        id |-> Len(c.states)]

\* states.insert(make_pair(exp, states.size())) and the push_back, found being
\* the id exp already has, or -1.  The id is in the result's id.
Inserted(c, exp, found) ==
  IF found >= 0 THEN [c |-> c, id |-> found]
  ELSE [c  |-> [c EXCEPT !.states = Append(@, exp),
                         !.queue = IF Len(c.states) > 0 THEN Append(@, exp) ELSE @],
        id |-> Len(c.states)]

\* LookupOrInsert on the builder record c.
LookupOrInsert(c, exp) == Inserted(c, exp, FindState(c.states, exp, 1))

\* The lowest byte of a 0-based block: for (byte = 0; !i->test(byte); ++byte).
\* On an empty block the loop runs into test(256), which throws.
FirstByte(bs) ==
  IF bs = {} THEN NumBytes
  ELSE CHOOSE b \in bs : \A o \in bs : b <= o

\* Mutation: the lowest byte of the block's set for the first block as well.
RepresentativeLowest(partitions, i) == FirstByte(partitions[i])

\* The byte a block is differentiated by.
Representative(partitions, i) ==
  IF i = 1 THEN DefaultByte ELSE FirstByte(partitions[i])

\* Mutation: no default key for the first block.
KeysOfBytes(curr, partitions, i) ==
  IF i = 1 THEN {} ELSE {<<curr, b>> : b \in partitions[i]}

\* The transition keys a block stands for: the default key for the first
\* block, one key for each byte of any other.
Keys(curr, partitions, i) ==
  IF i = 1 THEN {<<curr, DefaultByte>>}
  ELSE {<<curr, b>> : b \in partitions[i]}

EmptyFA ==
  [error |-> -1, empty |-> -1,
   accepting |-> <<>>, partitions |-> <<>>, transition |-> <<>>, final |-> <<>>]

\* A function with one more (or one overwritten) entry.
Put(f, k, v) == (k :> v) @@ f

\* dfa->transition_[key] = next for every key, r being what LookupOrInsert gave.
DfaTransitions(r, keys) ==
  [r.c EXCEPT !.fa.transition = [k \in keys |-> r.id] @@ @]

RECURSIVE DfaBlocks(_, _, _, _, _)
\* The loop over the partitions of state curr in the DFA branch, from block i.
DfaBlocks(c, exp, curr, partitions, i) ==
  IF Evaluated(c) /\ i > Len(partitions) THEN c
  ELSE DfaBlocks(
         DfaTransitions(
           LookupOrInsert(c, Normalised(Derivative(exp, Representative(partitions, i)))),
           Keys(curr, partitions, i)),
         exp, curr, partitions, i + 1)

\* tnfa->transition_.insert(key, pair) for every key: a multimap keeps the
\* entries of one key in the order of their insertion.
TnfaTransition(c, keys, pair) ==
  [c EXCEPT !.fa.transition =
     [k \in keys |-> IF k \in DOMAIN @ THEN Append(@[k], pair) ELSE <<pair>>] @@ @]

\* The body of the loop over the alternatives once LookupOrInsert gave r:
\* [c, seen] after it.  A (next, bindings) pair already seen for the block
\* is not inserted again.
TnfaAlternative(r, keys, bindings, seen) ==
  IF <<r.id, bindings>> \in seen THEN [c |-> r.c, seen |-> seen]
  ELSE [c |-> TnfaTransition(r.c, keys, <<r.id, bindings>>),
        seen |-> seen \cup {<<r.id, bindings>>}]

RECURSIVE TnfaOuter(_, _, _, _)
\* The loop over the alternatives of Partial(exp, byte) for one block, from
\* alternative j; cs is [c, seen].
TnfaOuter(cs, keys, outer, j) ==
  IF Evaluated(cs) /\ j > Len(outer) THEN cs.c
  ELSE TnfaOuter(
         TnfaAlternative(LookupOrInsert(cs.c, Normalised(outer[j][1])),
                         keys, outer[j][2], cs.seen),
         keys, outer, j + 1)

RECURSIVE TnfaBlocks(_, _, _, _, _)
\* The loop over the partitions of state curr in the tagged branch.
TnfaBlocks(c, exp, curr, partitions, i) ==
  IF Evaluated(c) /\ i > Len(partitions) THEN c
  ELSE TnfaBlocks(
         TnfaOuter([c |-> c, seen |-> {}], Keys(curr, partitions, i),
                   Partial(exp, Representative(partitions, i)), 1),
         exp, curr, partitions, i + 1)

\* Mutation: the state of the empty string is recorded as the error state.
RecordedEmptyAsError(fa, exp, curr, nullable, partitions, tagged) ==
  [fa EXCEPT
     !.error = IF exp.kind = kEmptyString THEN curr ELSE @,
     !.empty = IF exp.kind = kEmptyString THEN curr ELSE @,
     !.accepting = Put(@, curr, nullable),
     !.final = IF nullable /\ tagged
               THEN Put(@, curr,
                        (IF curr \in DOMAIN @ THEN @[curr] ELSE <<>>)
                        \o EpsilonBindings(exp))
               ELSE @,
     !.partitions = Put(@, curr, partitions)]

\* Mutation: the TNFA build records final bindings for every state.
RecordedFinalOfAll(fa, exp, curr, nullable, partitions, tagged) ==
  [fa EXCEPT
     !.error = IF exp.kind = kEmptySet THEN curr ELSE @,
     !.empty = IF exp.kind = kEmptyString THEN curr ELSE @,
     !.accepting = Put(@, curr, nullable),
     !.final = IF tagged
               THEN Put(@, curr,
                        (IF curr \in DOMAIN @ THEN @[curr] ELSE <<>>)
                        \o EpsilonBindings(exp))
               ELSE @,
     !.partitions = Put(@, curr, partitions)]

\* error_, empty_, accepting_, final_ and partitions_ for state curr.
Recorded(fa, exp, curr, nullable, partitions, tagged) ==
  [fa EXCEPT
     !.error = IF exp.kind = kEmptySet THEN curr ELSE @,
     !.empty = IF exp.kind = kEmptyString THEN curr ELSE @,
     !.accepting = Put(@, curr, nullable),
     !.final = IF nullable /\ tagged
               THEN Put(@, curr,
                        (IF curr \in DOMAIN @ THEN @[curr] ELSE <<>>)
                        \o EpsilonBindings(exp))
               ELSE @,
     !.partitions = Put(@, curr, partitions)]

\* The loop over the partitions, c being the builder after the bookkeeping.
Blocks(c, exp, curr, partitions, tagged) ==
  IF tagged THEN TnfaBlocks(c, exp, curr, partitions, 1)
  ELSE DfaBlocks(c, exp, curr, partitions, 1)

\* The iteration from "int curr = LookupOrInsert(exp)" on, r being its result.
Process(r, exp, partitions, tagged) ==
  Blocks([r.c EXCEPT !.fa = Recorded(@, exp, r.id, IsNullable(exp), partitions, tagged)],
         exp, r.id, partitions, tagged)

\* The iteration on the normalised front of the queue, c being the builder
\* after pop_front.
Iteration(c, exp, tagged) ==
  Process(LookupOrInsert(c, exp), exp, Partitions(exp), tagged)

\* One iteration of while (!queue.empty()) on the builder record c.
CompileIteration(c, tagged) ==
  Iteration([c EXCEPT !.queue = Tail(@)], Normalised(c.queue[1]), tagged)

\* The builder at the entry of CompileImpl's loop: queue.push_back(exp).
NewBuilder(exp) == [states |-> <<>>, queue |-> <<exp>>, fa |-> EmptyFA]

(***************************************************************************)
(* The three matchers.  A string is a sequence of bytes 0..255.            *)
(***************************************************************************)
RECURSIVE ExpRun(_, _, _)
\* The expression Match(exp, str) holds after consuming str[i..].
ExpRun(exp, str, i) ==
  IF Evaluated(exp) /\ i > Len(str) THEN exp
  ELSE ExpRun(Normalised(Derivative(exp, str[i])), str, i + 1)

MatchExp(exp, str) == IsNullable(ExpRun(exp, str, 1))

\* The value of a find() that returned end(), dereferenced.
NoState == -2

\* One step of Match(dfa, str): the byte's own transition, else the default.
DfaNext(fa, curr, byte) ==
  IF <<curr, byte>> \in DOMAIN fa.transition THEN fa.transition[<<curr, byte>>]
  ELSE IF <<curr, DefaultByte>> \in DOMAIN fa.transition
       THEN fa.transition[<<curr, DefaultByte>>]
       ELSE NoState

RECURSIVE DfaRun(_, _, _, _)
DfaRun(fa, curr, str, i) ==
  IF Evaluated(curr) /\ i > Len(str) THEN curr
  ELSE DfaRun(fa, DfaNext(fa, curr, str[i]), str, i + 1)

IsAccepting(fa, state) == state \in DOMAIN fa.accepting /\ fa.accepting[state]

IsError(fa, state) == state = fa.error

MatchDFA(fa, str) == IsAccepting(fa, DfaRun(fa, 0, str, 1))

RECURSIVE ApplyBindings(_, _, _, _)
\* offsets is 1-based here: offsets[2 * num + 1] is the code's offsets[l].
ApplyBindings(bindings, i, pos, offsets) ==
  IF i > Len(bindings) THEN offsets
  ELSE LET l == 2 * bindings[i][1] + 1
           r == 2 * bindings[i][1] + 2
           type == bindings[i][2]
           o1 == IF type = kCancel
                 THEN IF offsets[l] # -1
                      THEN [offsets EXCEPT ![l] = -1, ![r] = -1]
                      ELSE offsets
                 ELSE IF offsets[l] = -1
                      THEN [offsets EXCEPT ![l] = pos, ![r] = pos]
                      ELSE offsets
           o2 == IF type = kAppend THEN [o1 EXCEPT ![r] = @ + 1] ELSE o1
       IN ApplyBindings(bindings, i + 1, pos, o2)

RECURSIVE Precedes(_, _, _, _)
\* Mutation: the branch x[l] > y[l] is gone, so a later start is decided by
\* the ends.
PrecedesNoGreater(x, y, modes, i) ==
  IF i > Len(modes) THEN FALSE
  ELSE LET l == 2 * (i - 1) + 1
           r == 2 * (i - 1) + 2
       IN IF x[l] = -1 /\ y[l] = -1 THEN Precedes(x, y, modes, i + 1)
          ELSE IF x[l] = -1 THEN FALSE
          ELSE IF y[l] = -1 THEN TRUE
          ELSE IF modes[i] = kPassive THEN Precedes(x, y, modes, i + 1)
          ELSE IF x[l] < y[l] THEN TRUE
          ELSE IF x[r] < y[r] THEN modes[i] = kMinimal
          ELSE IF x[r] > y[r] THEN modes[i] = kMaximal
          ELSE Precedes(x, y, modes, i + 1)

\* Mutation: the longer span precedes whatever the mode, as for kMaximal.
PrecedesLonger(x, y, modes, i) ==
  IF i > Len(modes) THEN FALSE
  ELSE LET l == 2 * (i - 1) + 1
           r == 2 * (i - 1) + 2
       IN IF x[l] = -1 /\ y[l] = -1 THEN Precedes(x, y, modes, i + 1)
          ELSE IF x[l] = -1 THEN FALSE
          ELSE IF y[l] = -1 THEN TRUE
          ELSE IF modes[i] = kPassive THEN Precedes(x, y, modes, i + 1)
          ELSE IF x[l] < y[l] THEN TRUE
          ELSE IF x[l] > y[l] THEN FALSE
          ELSE IF x[r] < y[r] THEN FALSE
          ELSE IF x[r] > y[r] THEN TRUE
          ELSE Precedes(x, y, modes, i + 1)

\* Mutation: the shorter span precedes whatever the mode, as for kMinimal.
PrecedesShorter(x, y, modes, i) ==
  IF i > Len(modes) THEN FALSE
  ELSE LET l == 2 * (i - 1) + 1
           r == 2 * (i - 1) + 2
       IN IF x[l] = -1 /\ y[l] = -1 THEN Precedes(x, y, modes, i + 1)
          ELSE IF x[l] = -1 THEN FALSE
          ELSE IF y[l] = -1 THEN TRUE
          ELSE IF modes[i] = kPassive THEN Precedes(x, y, modes, i + 1)
          ELSE IF x[l] < y[l] THEN TRUE
          ELSE IF x[l] > y[l] THEN FALSE
          ELSE IF x[r] < y[r] THEN TRUE
          ELSE IF x[r] > y[r] THEN FALSE
          ELSE Precedes(x, y, modes, i + 1)

\* Precedes(x, y, modes) from group i on; group i has offsets x[l] and x[r].
Precedes(x, y, modes, i) ==
  IF i > Len(modes) THEN FALSE
  ELSE LET l == 2 * (i - 1) + 1
           r == 2 * (i - 1) + 2
       IN IF x[l] = -1 /\ y[l] = -1 THEN Precedes(x, y, modes, i + 1)
          ELSE IF x[l] = -1 THEN FALSE
          ELSE IF y[l] = -1 THEN TRUE
          ELSE IF modes[i] = kPassive THEN Precedes(x, y, modes, i + 1)
          ELSE IF x[l] < y[l] THEN TRUE
          ELSE IF x[l] > y[l] THEN FALSE
          ELSE IF x[r] < y[r] THEN modes[i] = kMinimal
          ELSE IF x[r] > y[r] THEN modes[i] = kMaximal
          ELSE Precedes(x, y, modes, i + 1)

RECURSIVE InsertByOffsets(_, _, _)
\* x placed before the first element it precedes: a stable insertion.
InsertByOffsets(sorted, x, modes) ==
  IF sorted = <<>> THEN <<x>>
  ELSE IF Precedes(x[2], sorted[1][2], modes, 1) THEN <<x>> \o sorted
  ELSE <<sorted[1]>> \o InsertByOffsets(Tail(sorted), x, modes)

RECURSIVE SortByOffsets(_, _, _, _)
\* tmp.sort(CompareOffsets): list::sort is stable.
SortByOffsets(tmp, i, sorted, modes) ==
  IF i > Len(tmp) THEN sorted
  ELSE SortByOffsets(tmp, i + 1, InsertByOffsets(sorted, tmp[i], modes), modes)

\* The transitions Match(tnfa, str) walks for (curr, byte).
TnfaTransitions(fa, curr, byte) ==
  IF <<curr, byte>> \in DOMAIN fa.transition THEN fa.transition[<<curr, byte>>]
  ELSE IF <<curr, DefaultByte>> \in DOMAIN fa.transition
       THEN fa.transition[<<curr, DefaultByte>>]
       ELSE <<>>

RECURSIVE TnfaEdges(_, _, _, _, _, _, _)
\* Mutation: a next state is taken whether or not it has been seen in the
\* round.
TnfaEdgesUnseen(fa, edges, j, offsets, pos, tmp, seen) ==
  IF Evaluated(tmp) /\ j > Len(edges) THEN [tmp |-> tmp, seen |-> seen]
  ELSE IF ~IsError(fa, edges[j][1])
       THEN TnfaEdges(fa, edges, j + 1, offsets, pos,
                      Append(tmp, <<edges[j][1],
                                    ApplyBindings(edges[j][2], 1, pos, offsets)>>),
                      seen \cup {edges[j][1]})
       ELSE TnfaEdges(fa, edges, j + 1, offsets, pos, tmp, seen)

\* The inner while loop: [tmp, seen] after the transitions from index j.
TnfaEdges(fa, edges, j, offsets, pos, tmp, seen) ==
  IF Evaluated(tmp) /\ j > Len(edges) THEN [tmp |-> tmp, seen |-> seen]
  ELSE LET next == edges[j][1]
       IN IF next \notin seen /\ ~IsError(fa, next)
          THEN TnfaEdges(fa, edges, j + 1, offsets, pos,
                         Append(tmp, <<next, ApplyBindings(edges[j][2], 1, pos, offsets)>>),
                         seen \cup {next})
          ELSE TnfaEdges(fa, edges, j + 1, offsets, pos, tmp, seen)

\* Mutation: tmp is appended as it is, in the order of the transitions.
Unsorted(next_states, r, modes) ==
  [tmp |-> next_states \o r.tmp, seen |-> r.seen]

\* next_states.insert(next_states.end(), tmp.begin(), tmp.end()) after
\* tmp.sort(CompareOffsets); r is [tmp, seen] and so is the result, tmp then
\* being next_states.
Sorted(next_states, r, modes) ==
  [tmp |-> next_states \o SortByOffsets(r.tmp, 1, <<>>, modes), seen |-> r.seen]

RECURSIVE TnfaStep(_, _, _, _, _, _, _)
\* The loop over curr_states for one byte, from entry i: next_states, ns
\* being [tmp |-> next_states, seen |-> seen] so far.
TnfaStep(fa, modes, curr_states, i, byte, pos, ns) ==
  IF Evaluated(ns) /\ i > Len(curr_states) THEN ns.tmp
  ELSE TnfaStep(fa, modes, curr_states, i + 1, byte, pos,
                Sorted(ns.tmp,
                          TnfaEdges(fa, TnfaTransitions(fa, curr_states[i][1], byte), 1,
                                    curr_states[i][2], pos, <<>>, ns.seen),
                          modes))

RECURSIVE TnfaRun(_, _, _, _, _)
\* curr_states after consuming str[i..]; pos is i - 1.
TnfaRun(fa, modes, curr_states, str, i) ==
  IF Evaluated(curr_states) /\ i > Len(str) THEN curr_states
  ELSE TnfaRun(fa, modes,
               TnfaStep(fa, modes, curr_states, 1, str[i], i - 1,
                        [tmp |-> <<>>, seen |-> {}]),
               str, i + 1)

TnfaInitial(modes) == << <<0, [k \in 1..(2 * Len(modes)) |-> -1]>> >>

RECURSIVE FirstAccepting(_, _, _)
\* The index of the first accepting entry of curr_states, or 0.
FirstAccepting(fa, curr_states, i) ==
  IF i > Len(curr_states) THEN 0
  ELSE IF IsAccepting(fa, curr_states[i][1]) THEN i
  ELSE FirstAccepting(fa, curr_states, i + 1)

\* The offsets of the capturing groups, copied out of copy.
CaptureOffsets(captures, copy) ==
  List([j \in 1..(2 * Len(captures)) |->
          copy[2 * captures[(j + 1) \div 2] + 2 - (j % 2)]])

\* The final loop of Match(tnfa, str, &offsets), k being the index of the
\* first accepting entry or 0: [match, offsets].
MatchFinal(fa, captures, pos, curr_states, k) ==
  IF k = 0 THEN [match |-> FALSE, offsets |-> <<>>]
  ELSE [match |-> TRUE,
        offsets |-> CaptureOffsets(captures,
                      ApplyBindings(fa.final[curr_states[k][1]], 1, pos,
                                    curr_states[k][2]))]

\* Match(tnfa, str, &offsets) from the end of the input on.
MatchAtEnd(fa, captures, pos, curr_states) ==
  MatchFinal(fa, captures, pos, curr_states, FirstAccepting(fa, curr_states, 1))

\* Match(tnfa, str, &offsets): [match, offsets].
MatchTNFA(fa, modes, captures, str) ==
  MatchAtEnd(fa, captures, Len(str), TnfaRun(fa, modes, TnfaInitial(modes), str, 1))

(***************************************************************************)
(* The language of an expression, by structural recursion on strings: the  *)
(* reference the matchers are compared with.  Groups are transparent.      *)
(***************************************************************************)
RECURSIVE InLang(_, _)
InLang(exp, str) ==
  LET n == Len(str)
  IN CASE exp.kind = kEmptySet -> FALSE
       [] exp.kind = kEmptyString -> n = 0
       [] exp.kind = kGroup -> InLang(ExpSub(exp), str)
       [] exp.kind = kAnyByte -> n = 1
       [] exp.kind = kByte -> n = 1 /\ str[1] = exp.data[1]
       [] exp.kind = kByteRange ->
            n = 1 /\ exp.data[1] <= str[1] /\ str[1] <= exp.data[2]
       [] exp.kind = kKleeneClosure ->
            \/ n = 0
            \/ \E k \in 1..n : /\ InLang(ExpSub(exp), SubSeq(str, 1, k))
                               /\ InLang(exp, SubSeq(str, k + 1, n))
       [] exp.kind = kConcatenation ->
            \E k \in 0..n : /\ InLang(ExpHead(exp), SubSeq(str, 1, k))
                            /\ InLang(ExpTail(exp), SubSeq(str, k + 1, n))
       [] exp.kind = kComplement -> ~InLang(ExpSub(exp), str)
       [] exp.kind = kConjunction ->
            \A j \in 1..Len(exp.subs) : InLang(exp.subs[j], str)
       [] exp.kind = kDisjunction ->
            \E j \in 1..Len(exp.subs) : InLang(exp.subs[j], str)
       [] OTHER -> FALSE

(***************************************************************************)
(* The patterns and the inputs explored.                                   *)
(***************************************************************************)
MaxSize == 3
MaxLen == 2
MaxStates == 16

\* Input bytes: 'a', 'b', and the UTF-8 continuation byte 0x80.
Alphabet == {97, 98, 128}

RECURSIVE Strings(_)
Strings(n) ==
  IF n = 0 THEN {<<>>}
  ELSE LET shorter == Strings(n - 1)
       IN shorter \cup {Append(str, b) : str \in shorter, b \in Alphabet}

\* What the parser builds for x*, x*?, x+, x?, (x) and (?:x).
Star(x) == Group(-1, Quantifier(x, 0, -1), kMaximal, FALSE)
LazyStar(x) == Group(-1, Quantifier(x, 0, -1), kMinimal, FALSE)
Plus(x) == Group(-1, Quantifier(x, 1, -1), kMaximal, FALSE)
Opt(x) == Group(-1, Quantifier(x, 0, 1), kMaximal, FALSE)
Paren(x) == Group(-1, x, kPassive, TRUE)
NonCapture(x) == Group(-1, x, kPassive, FALSE)

\* The tokens \C, a and b.
Fundamentals == {AnyByte, Character(97), Character(98)}

(***************************************************************************)
(* The parse trees of the grammar of parser.yy, by the number n of their   *)
(* operators and atoms.  The precedences (quantifier over concatenation    *)
(* over complement over conjunction over disjunction) decide what can be   *)
(* the operand of what: a conjunction or a disjunction is the operand of   *)
(* a quantifier, a concatenation or a complement only in parentheses.      *)
(***************************************************************************)
RECURSIVE Expressions(_)
RECURSIVE Quantified(_)
\* A fundamental, a parenthesised expression or a quantified one.
Quantified(n) ==
  IF n < 1 THEN {}
  ELSE IF n = 1 THEN Fundamentals
  ELSE {Paren(x) : x \in Expressions(n - 1)} \cup {Star(x) : x \in Quantified(n - 1)}

RECURSIVE Concatenated(_)
\* x y z is x (y z).
Concatenated(n) ==
  Quantified(n)
    \cup UNION {{Concatenation(x, y) : x \in Quantified(k), y \in Concatenated(n - 1 - k)}
                : k \in 1..(n - 2)}

RECURSIVE Complemented(_)
\* !x y is !(x y).
Complemented(n) ==
  IF n < 1 THEN {}
  ELSE Concatenated(n) \cup {Complement(x) : x \in Complemented(n - 1)}

RECURSIVE Chained(_)
\* x !y is (x)(!y).
Chained(n) ==
  Complemented(n)
    \cup UNION {{Concatenation(x, Complement(y)) : x \in Chained(k),
                                                  y \in Complemented(n - 2 - k)}
                : k \in 1..(n - 3)}

RECURSIVE Conjoined(_)
\* x & y & z is (x & y) & z.
Conjoined(n) ==
  Chained(n)
    \cup UNION {{Conjunction(x, y) : x \in Conjoined(k), y \in Chained(n - 1 - k)}
                : k \in 1..(n - 2)}

\* x | y | z is (x | y) | z.
Expressions(n) ==
  Conjoined(n)
    \cup UNION {{Disjunction(x, y) : x \in Expressions(k), y \in Conjoined(n - 1 - k)}
                : k \in 1..(n - 2)}

\* The parse tree of (a|bcdef|g|ab|c|d|e|efg|fg)* and the input abcdefg.
PerlSemantics ==
  LET a == Byte(97)
      b == Byte(98)
      c == Byte(99)
      d == Byte(100)
      e == Byte(101)
      f == Byte(102)
      g == Byte(103)
      bcdef == Concatenation(b, Concatenation(c, Concatenation(d, Concatenation(e, f))))
      efg == Concatenation(e, Concatenation(f, g))
  IN Star(Paren(
       Disjunction(Disjunction(Disjunction(Disjunction(Disjunction(Disjunction(
         Disjunction(Disjunction(a, bcdef), g), Concatenation(a, b)), c), d), e),
         efg), Concatenation(f, g))))

abcdefg == <<97, 98, 99, 100, 101, 102, 103>>

\* The inputs a unit test matches its pattern with, besides the short ones.
Examples(t) == IF t = PerlSemantics THEN {abcdefg} ELSE {}

\* Patterns of the unit tests and of the documentation, as parse trees.
Scenarios ==
  LET a == Byte(97)
      b == Byte(98)
  IN { PerlSemantics,
       AnyCharacter,                                                \* .
       Star(AnyCharacter),                                          \* .*
       Complement(AnyCharacter),                                    \* !.
       Concatenation(Star(AnyCharacter), a),                        \* .*a
       Disjunction(AnyCharacter, Concatenation(a, b)),              \* .|ab
       Concatenation(Star(a), b),                                   \* a*b
       Concatenation(Paren(LazyStar(a)), Paren(Star(a))),           \* (a*?)(a*)
       Concatenation(Paren(Star(a)), Paren(LazyStar(a))),           \* (a*)(a*?)
       Concatenation(Paren(Star(a)), Paren(Star(a))),               \* (a*)(a*)
       Concatenation(NonCapture(Disjunction(Paren(LazyStar(a)), Paren(Star(a)))),
                     Paren(Star(a))),                       \* (?:(a*?)|(a*))(a*)
       Concatenation(NonCapture(Disjunction(Paren(Star(a)), Paren(LazyStar(a)))),
                     Paren(Star(a))),                       \* (?:(a*)|(a*?))(a*)
       Disjunction(Paren(a), Paren(b)),                             \* (a)|(b)
       Star(Paren(Disjunction(a, b))),                              \* (a|b)*
       Complement(Paren(a)),                                        \* !(a)
       Conjunction(Concatenation(a, AnyCharacter),
                   Concatenation(AnyCharacter, b)),                 \* a.&.b
       Disjunction(Disjunction(b, a), b),                           \* b|a|b
       Conjunction(Conjunction(Star(a), Complement(b)), Star(a)),   \* a*&!b&a*
       CharacterClass(<<97>>, TRUE),                                \* [^a]
       Star(CharacterClass(<<97>>, TRUE)),                          \* [^a]*
       Concatenation(CharacterClass(<<97>>, TRUE), Star(b)),        \* [^a]b*
       Concatenation(CharacterClass(<<97>>, TRUE), Paren(b)),       \* [^a](b)
       Concatenation(CharacterClass(<<97, 98>>, FALSE), Plus(a)),   \* [ab]a+
       Concatenation(Opt(Paren(a)), b),                             \* (a)?b
       Concatenation(NonCapture(Conjunction(a, Complement(a))), Star(b)),
                                                                    \* (?:a&!a)b*
       Concatenation(NonCapture(Concatenation(a, b)), Star(a)),     \* (?:ab)a*
       Paren(Group(-1, Quantifier(a, 0, 0), kMaximal, FALSE)),      \* (a{0})
       Paren(Complement(Paren(a))),                                 \* (!(a))
       Complement(Paren(Complement(Paren(a)))),                     \* !(!(a))
       Concatenation(Paren(a), Complement(Paren(b))),               \* (a)!(b)
       Paren(Complement(Concatenation(CharacterClass(<<97>>, TRUE), Star(b)))) }
                                                                    \* (![^a]b*)

\* The operands of the alternatives: a, a*, a\C, \Cb, a\C*, \C*b and ab.
Operands ==
  LET a == Byte(97)
      b == Byte(98)
  IN { a, Star(a), Concatenation(a, AnyByte), Concatenation(AnyByte, b),
       Concatenation(a, Star(AnyByte)), Concatenation(Star(AnyByte), b),
       Concatenation(a, b) }

\* The parse tree of [^a]b*.
NotAThenBs == Concatenation(CharacterClass(<<97>>, TRUE), Star(Byte(98)))

\* The patterns (A)|(B) of two capturing groups, as parse trees:
\* the operands two by two, and ([^a]b*)|(a\C*).
Alternatives ==
  {Disjunction(Paren(x), Paren(y)) : x, y \in Operands}
    \cup {Disjunction(Paren(NotAThenBs),
                      Paren(Concatenation(Byte(97), Star(AnyByte))))}

\* The patterns (X)* of a capturing group under a closure, as parse trees.
Closures == {Star(Paren(x)) : x \in Operands \cup {NotAThenBs}}

\* The patterns (X) of one capturing group around the whole, as parse trees.
Wrapped == {Paren(x) : x \in Operands \cup {NotAThenBs}}

Patterns ==
  Scenarios \cup Alternatives \cup Closures \cup Wrapped
    \cup UNION {Expressions(n) : n \in 1..MaxSize}

Atoms == {EmptySet, EmptyString, AnyByte, Byte(97), Byte(98)}

RECURSIVE Trees(_)
\* The group-free expressions of n nodes that the constructors of regexp.h
\* build.
Trees(n) ==
  IF n = 1 THEN Atoms
  ELSE {KleeneClosure(x) : x \in Trees(n - 1)}
       \cup {Complement(x) : x \in Trees(n - 1)}
       \cup UNION {{Concatenation(x, y) : x \in Trees(k), y \in Trees(n - 1 - k)}
                   : k \in 1..(n - 2)}
       \cup UNION {{Conjunction(x, y) : x \in Trees(k), y \in Trees(n - 1 - k)}
                   : k \in 1..(n - 2)}
       \cup UNION {{Disjunction(x, y) : x \in Trees(k), y \in Trees(n - 1 - k)}
                   : k \in 1..(n - 2)}

\* Expressions built as the unit tests build them, with the constructors.
Constructed ==
  LET a == Byte(97)
      b == Byte(98)
  IN { KleeneClosure(AnyCharacter),
       DisjunctionN(<<b, a, b>>, FALSE),
       ConjunctionN(<<KleeneClosure(a), Complement(EmptySet), KleeneClosure(a)>>, FALSE),
       Concatenation(Conjunction(a, Complement(a)), KleeneClosure(b)),
       Concatenation(Concatenation(a, b), KleeneClosure(a)) }

Built == Constructed \cup UNION {Trees(n) : n \in 1..MaxSize}

Inputs == Strings(MaxLen)

\* origin tells where the expressions come from: "Parse" when tree is the
\* parse tree of a pattern and exp1 and exp2 are what the two Parse functions
\* made of it, "Build" when the caller built tree with the constructors and
\* compiles it as it is.  dfa and tnfa are the two builders, pc the call in
\* progress, iteration the number of worklist iterations run so far, str the
\* input and result what the three matchers returned on it.
VARIABLES origin, tree, exp1, exp2, dfa, tnfa, pc, iteration, str, result

vars == <<origin, tree, exp1, exp2, dfa, tnfa, pc, iteration, str, result>>

NoResult == [exp |-> FALSE, dfa |-> FALSE, tnfa |-> FALSE, offsets |-> <<>>]

\* The expressions are there and Compile(exp1, &dfa) is at the head of its
\* loop.
Init ==
  /\ \/ /\ origin = "Parse"
        /\ tree \in Patterns
        /\ exp1 = Parse1(tree)
        /\ exp2 = Parse2(tree)
     \/ /\ origin = "Build"
        /\ tree \in Built
        /\ exp1 = tree
        /\ exp2 = [exp |-> tree, w |-> NoGroups]
  /\ dfa = NewBuilder(exp1)
  /\ tnfa = NewBuilder(exp2.exp)
  /\ pc = "CompileDFA"
  /\ iteration = 0
  /\ str = <<>>
  /\ result = NoResult

\* One iteration of the worklist loop of Compile(exp1, &dfa); the call returns
\* when the queue is empty.
CompileDFA ==
  /\ pc = "CompileDFA"
  /\ Len(dfa.states) < MaxStates
  /\ dfa' = CompileIteration(dfa, FALSE)
  /\ pc' = IF dfa'.queue = <<>> THEN "CompileTNFA" ELSE pc
  /\ iteration' = iteration + 1
  /\ UNCHANGED <<origin, tree, exp1, exp2, tnfa, str, result>>

\* One iteration of the worklist loop of Compile(exp2, &tnfa).
CompileTNFA ==
  /\ pc = "CompileTNFA"
  /\ Len(tnfa.states) < MaxStates
  /\ tnfa' = CompileIteration(tnfa, TRUE)
  /\ pc' = IF tnfa'.queue = <<>> THEN "Match" ELSE pc
  /\ iteration' = iteration + 1
  /\ UNCHANGED <<origin, tree, exp1, exp2, dfa, str, result>>

\* What the three matchers returned, m being [match, offsets] of the TNFA.
Results(e, d, m) == [exp |-> e, dfa |-> d, tnfa |-> m.match, offsets |-> m.offsets]

\* The three matchers run on one input.
Match ==
  /\ pc = "Match"
  /\ \E s \in Inputs \cup Examples(tree) :
       /\ str' = s
       /\ result' = Results(MatchExp(exp1, s), MatchDFA(dfa.fa, s),
                            MatchTNFA(tnfa.fa, exp2.w.modes, exp2.w.captures, s))
  /\ pc' = "Matched"
  /\ UNCHANGED <<origin, tree, exp1, exp2, dfa, tnfa, iteration>>

Next == CompileDFA \/ CompileTNFA \/ Match

Spec == Init /\ [][Next]_vars

\* A worklist loop whose queue is not empty runs its next iteration: the
\* steps that count an iteration are the steps of CompileDFA and CompileTNFA.
Iterates ==
  /\ \/ pc = "CompileDFA" /\ Len(dfa.states) < MaxStates
     \/ pc = "CompileTNFA" /\ Len(tnfa.states) < MaxStates
  /\ iteration' = iteration + 1

FairSpec == Spec /\ WF_iteration(Iterates)

(***************************************************************************)
(* The derivative interpreter handed the expression of the tagged parse:   *)
(* Match(exp, str) on an expression with Group nodes in it.                *)
(***************************************************************************)
RECURSIVE HasAborted(_)
\* abort() was called while exp was computed: the calls of Derivative nest
\* and every result goes into the caller's result.
HasAborted(exp) ==
  \/ exp.kind = Aborted.kind
  \/ \E i \in 1..Len(exp.subs) : HasAborted(exp.subs[i])

RECURSIVE ExpRunOrAbort(_, _, _)
\* The rest of the loop body of Match(exp, str), der being the derivative.
ExpStepOrAbort(der, input, i) ==
  IF HasAborted(der) THEN Aborted ELSE ExpRunOrAbort(Normalised(der), input, i)

\* The loop of Match(exp, str) from byte i on: the expression it ends with,
\* or Aborted.
ExpRunOrAbort(exp, input, i) ==
  IF i > Len(input) THEN exp
  ELSE ExpStepOrAbort(Derivative(exp, input[i]), input, i + 1)

\* Where Match(exp, str) ends, exp being what its loop ended with, and what
\* it returns.
Returned(exp) ==
  IF HasAborted(exp) THEN [pc |-> "Aborted", result |-> NoResult]
  ELSE [pc |-> "Returned", result |-> [NoResult EXCEPT !.exp = IsNullable(exp)]]

\* Match(exp2.exp, s): the derivative interpreter runs on the expression with
\* its groups and returns or aborts.
MatchTagged ==
  /\ pc = "CompileDFA"
  /\ iteration = 0
  /\ \E s \in Inputs : \E r \in {Returned(ExpRunOrAbort(exp2.exp, s, 1))} :
       /\ str' = s
       /\ pc' = r.pc
       /\ result' = r.result
  /\ UNCHANGED <<origin, tree, exp1, exp2, dfa, tnfa, iteration>>

TaggedSpec == Init /\ [][MatchTagged]_vars

(***************************************************************************)
(* Properties.                                                             *)
(***************************************************************************)

\* Both automata are built and the matchers have run on str.
Matched == pc = "Matched"

\* Both automata are built and no input has been matched yet.
Compiled == pc = "Match"

RECURSIVE HasAnyCharacterClosure(_)
\* Some Kleene closure in exp is of an operand that normalises to
\* AnyCharacter: the node the rewrite of .* to the complement of the empty
\* set applies to.
HasAnyCharacterClosure(exp) ==
  \/ /\ exp.kind = kKleeneClosure
     /\ ExpEq(Normalised(ExpSub(exp)), AnyCharacter)
  \/ \E i \in 1..Len(exp.subs) : HasAnyCharacterClosure(exp.subs[i])

\* C1 (as stated): the DFA compiled from the group-free expression accepts
\* a string exactly when the string is in the language of the expression.
C1_AsStated == Matched => (result.dfa <=> InLang(exp1, str))

\* C1 (amended): the DFA compiled from the group-free expression e accepts
\* a string exactly when the string is in the language of Normalised(e),
\* the expression the builder starts from; that is the language of e unless
\* e contains the closure of AnyCharacter, which then stands for every byte
\* string.
C1_DfaMatchesLanguage ==
  Matched => /\ result.dfa <=> InLang(Normalised(exp1), str)
             /\ ~HasAnyCharacterClosure(exp1) => (result.dfa <=> InLang(exp1, str))

\* A DFA of several states has accepted a string of two bytes.
C1_Witness ==
  /\ Matched
  /\ Len(dfa.states) >= 3
  /\ Len(str) = 2
  /\ result.dfa
  /\ InLang(exp1, str)

\* C2 (as stated, on the expressions Parse numbers the groups of, the
\* closure of AnyCharacter set aside): Match on the TNFA compiled from the
\* expression returns true exactly when the string is in the language of the
\* expression, Groups being transparent.
C2_AsStated ==
  (Matched /\ origin = "Parse" /\ ~HasAnyCharacterClosure(exp2.exp))
    => (result.tnfa <=> InLang(exp2.exp, str))

\* C3 (as stated, the closure of AnyCharacter set aside): on every pattern
\* the derivative interpreter, the DFA and the TNFA return the same boolean.
C3_AsStated ==
  (Matched /\ origin = "Parse" /\ ~HasAnyCharacterClosure(exp1))
    => (result.exp = result.dfa /\ result.dfa = result.tnfa)

\* The byte of the model: 0 .. 255.
Bytes == 0..(NumBytes - 1)

\* The bytes derivatives are compared on: the input alphabet and the ends
\* of the byte ranges of AnyCharacter.
ProbeBytes == Alphabet \cup {0, 127, 191, 192, 223, 224, 239, 240, 247, 248, 255}

\* The expressions of the states of a finished builder.
StatesOf(c) == {c.states[i] : i \in 1..Len(c.states)}

\* Every byte's normalised derivative of every state is a state again.
Closed(c) ==
  \A i \in 1..Len(c.states) : \A b \in Bytes :
    FindState(c.states, Normalised(Derivative(c.states[i], b)), 1) >= 0

\* C4: the expressions reachable from Normalised(e) by derivative and
\* normalisation are finitely many, and the DFA worklist terminates: the
\* construction leaves its loop, and the states it has then are closed
\* under the normalised derivative by every byte.
C4_Terminates ==
  /\ <>(pc # "CompileDFA")
  /\ [](pc = "CompileTNFA" /\ tnfa.states = <<>> => Closed(dfa))

\* The worklist has emptied after several iterations.
C4_Witness ==
  /\ pc = "CompileTNFA"
  /\ dfa.queue = <<>>
  /\ Len(dfa.states) >= 6

\* L(Normalised(Derivative(e, b))) = { w : b w \in L(e) }, on the inputs.
DerivativeIsQuotient(e) ==
  \A b \in ProbeBytes : \A w \in Inputs :
    InLang(Normalised(Derivative(e, b)), w) <=> InLang(e, <<b>> \o w)

\* C5 (as stated): for every group-free e and byte b, the language of
\* Normalised(Derivative(e, b)) is the set of w with b w in the language of e.
C5_AsStated == Compiled => DerivativeIsQuotient(exp1)

\* C5 (amended): the same, for every group-free e that has no closure of
\* AnyCharacter in it; this covers every expression in canonical form.
C5_DerivativeIsQuotient ==
  Compiled =>
    /\ ~HasAnyCharacterClosure(exp1) => DerivativeIsQuotient(exp1)
    /\ \A e \in StatesOf(dfa) : DerivativeIsQuotient(e)

\* A derivative by a byte the expression can start with has been taken.
C5_Witness ==
  /\ Compiled
  /\ ~HasAnyCharacterClosure(exp1)
  /\ \E b \in ProbeBytes : \E w \in Inputs :
       /\ Len(w) = 1
       /\ InLang(exp1, <<b>> \o w)
       /\ InLang(Normalised(Derivative(exp1, b)), w)

\* w is in the language of some alternative of outer, an alternative being
\* the conjunction of its members.
InOuterLang(outer, w) == \E j \in 1..Len(outer) : InLang(outer[j][1], w)

\* C6 (as stated, the closure of AnyCharacter set aside): the union of the
\* languages of the alternatives of Partial(e, b) is { w : b w \in L(e) }.
C6_AsStated ==
  (Compiled /\ ~HasAnyCharacterClosure(exp2.exp)) =>
    \A e \in {exp2.exp} \cup StatesOf(tnfa) :
      \A b \in ProbeBytes : \A w \in Inputs :
        InOuterLang(Partial(e, b), w) <=> InLang(e, <<b>> \o w)

\* The bytes of block i of partitions: for the first block the bytes
\* outside its set, for any other the bytes of its set.
Block(partitions, i) == IF i = 1 THEN Bytes \ partitions[1] ELSE partitions[i]

\* The alternatives of Partial(e, b), each normalised, with their bindings.
NormalisedPartial(e, b) ==
  LET outer == Partial(e, b)
  IN List([j \in 1..Len(outer) |-> <<Normalised(outer[j][1]), outer[j][2]>>])

\* Every byte of every block gives the normalised derivative of the
\* block's representative.
SameDerivative(e, partitions) ==
  \A i \in 1..Len(partitions) :
    LET der == Normalised(Derivative(e, Representative(partitions, i)))
    IN \A b \in Block(partitions, i) : ExpEq(Normalised(Derivative(e, b)), der)

\* Every byte of every block gives the normalised alternatives and the
\* bindings of the block's representative.
SamePartial(e, partitions) ==
  \A i \in 1..Len(partitions) :
    LET outer == NormalisedPartial(e, Representative(partitions, i))
    IN \A b \in Block(partitions, i) : NormalisedPartial(e, b) = outer

\* The blocks cover the bytes and no byte is in two of them.
IsPartition(partitions) ==
  /\ \A b \in Bytes : \E i \in 1..Len(partitions) : b \in Block(partitions, i)
  /\ \A i, j \in 1..Len(partitions) :
       i # j => Block(partitions, i) \cap Block(partitions, j) = {}

\* C7: every byte of a block of Partitions(e) yields the same normalised
\* derivative, and the same normalised partial derivatives with the same
\* bindings, as the representative the builder differentiates by; checked
\* on every state of both builders with the partitions recorded for it.
C7_BlocksAgree ==
  Compiled =>
    /\ \A i \in 1..Len(dfa.states) :
         /\ IsPartition(dfa.fa.partitions[i - 1])
         /\ SameDerivative(dfa.states[i], dfa.fa.partitions[i - 1])
    /\ \A i \in 1..Len(tnfa.states) :
         /\ IsPartition(tnfa.fa.partitions[i - 1])
         /\ SamePartial(tnfa.states[i], tnfa.fa.partitions[i - 1])

\* A state with three blocks or more, one of them of several bytes.
C7_Witness ==
  /\ Compiled
  /\ \E i \in 1..Len(dfa.states) :
       /\ Len(dfa.fa.partitions[i - 1]) >= 3
       /\ \E k \in 2..Len(dfa.fa.partitions[i - 1]) :
            Cardinality(dfa.fa.partitions[i - 1][k]) > 1

\* The strings of the inputs that e and its normal form disagree on.
Disagreements(e) == {w \in Inputs : InLang(Normalised(e), w) # InLang(e, w)}

\* C8 (as stated): Normalised(e) matches the same byte strings as e.
C8_AsStated ==
  Compiled => Disagreements(exp1) = {} /\ Disagreements(exp2.exp) = {}

\* C8 (amended): Normalised(e) matches the same byte strings as e, for every
\* e without a closure of AnyCharacter; of such a closure it makes the
\* complement of the empty set, which matches every byte string.  Checked on
\* the two expressions of the pattern and on every derivative the DFA
\* builder normalises.
C8_NormalisedPreservesLanguage ==
  Compiled =>
    /\ ~HasAnyCharacterClosure(exp1) => Disagreements(exp1) = {}
    /\ ~HasAnyCharacterClosure(exp2.exp) => Disagreements(exp2.exp) = {}
    /\ \A e \in StatesOf(dfa) : \A b \in ProbeBytes :
         Disagreements(Derivative(e, b)) = {}

\* Normalisation has rewritten the pattern, and the pattern matches an input.
C8_Witness ==
  /\ Compiled
  /\ ~HasAnyCharacterClosure(exp1)
  /\ ~ExpEq(Normalised(exp1), exp1)
  /\ \E w \in Inputs : Len(w) = 2 /\ InLang(Normalised(exp1), w)

RECURSIVE Rebuild(_)
\* exp with every composite node built anew, as a Walker that changes
\* nothing returns it: the nodes it builds are not marked normalised.
Rebuild(exp) ==
  CASE exp.kind = kGroup ->
         Group(GroupNum(exp), Rebuild(ExpSub(exp)), GroupMode(exp), GroupCapture(exp))
    [] exp.kind \in {kKleeneClosure, kConcatenation, kComplement,
                     kConjunction, kDisjunction} ->
         Expression(exp.kind, <<>>,
                    List([i \in 1..Len(exp.subs) |-> Rebuild(exp.subs[i])]), FALSE)
    [] OTHER -> exp

\* Normalised(e) is what Normalised returns on itself, and what the rules
\* return on it when no node of it is marked normalised.
IsFixedPoint(e) ==
  LET n == Normalised(e)
  IN /\ Compare(Normalised(n), n) = 0
     /\ Compare(Normalised(Rebuild(n)), n) = 0

\* C9: Normalised(Normalised(e)) is structurally equal to Normalised(e), and
\* Normalised(e) is a fixed point of the normalisation rules; checked on the
\* two expressions of the pattern and on every derivative the DFA builder
\* normalises.
C9_NormalisedIdempotent ==
  Compiled =>
    /\ IsFixedPoint(exp1)
    /\ IsFixedPoint(exp2.exp)
    /\ \A e \in StatesOf(dfa) : \A b \in ProbeBytes : IsFixedPoint(Derivative(e, b))
    /\ \A e \in StatesOf(tnfa) : IsFixedPoint(e)

\* Normalisation has rewritten a pattern into a Conjunction or Disjunction.
C9_Witness ==
  /\ Compiled
  /\ ~ExpEq(Normalised(exp1), exp1)
  /\ Normalised(exp1).kind \in {kConjunction, kDisjunction}
  /\ Len(Normalised(exp1).subs) >= 2

RECURSIVE IsCanonical(_)
\* Every Conjunction and Disjunction node of exp has two children or more,
\* strictly increasing in the order of Compare, none of the node's own kind.
IsCanonical(exp) ==
  /\ exp.kind \in {kConjunction, kDisjunction} =>
       /\ Len(exp.subs) >= 2
       /\ \A i \in 1..(Len(exp.subs) - 1) : Compare(exp.subs[i], exp.subs[i + 1]) < 0
       /\ \A i \in 1..Len(exp.subs) : exp.subs[i].kind # exp.kind
  /\ \A i \in 1..Len(exp.subs) : IsCanonical(exp.subs[i])

\* C10: every Conjunction or Disjunction node in the output of Normalised
\* has at least two children, strictly increasing, none of its own kind;
\* checked on the normal forms of the two expressions of the pattern, on
\* every state of both builders and on every normalised derivative.
C10_CanonicalLists ==
  Compiled =>
    /\ IsCanonical(Normalised(exp1))
    /\ IsCanonical(Normalised(exp2.exp))
    /\ \A e \in StatesOf(dfa) \cup StatesOf(tnfa) : IsCanonical(e)
    /\ \A e \in StatesOf(dfa) : \A b \in ProbeBytes :
         IsCanonical(Normalised(Derivative(e, b)))

\* A pattern whose children were out of order, repeated or nested has been
\* normalised into a list of two children or more.
C10_Witness ==
  /\ Compiled
  /\ exp1.kind \in {kConjunction, kDisjunction}
  /\ ~IsCanonical(exp1)
  /\ Normalised(exp1).kind = exp1.kind
  /\ \E e \in StatesOf(dfa) : e.kind \in {kConjunction, kDisjunction}

\* The offsets a group can have on an input: none, or a span of it.
OffsetPairs ==
  {<<-1, -1>>} \cup UNION {{<<l, r>> : r \in l..MaxLen} : l \in 0..MaxLen}

RECURSIVE OffsetVectors(_)
\* The offset vectors of n groups.
OffsetVectors(n) ==
  IF n = 0 THEN {<<>>}
  ELSE {p \o v : p \in OffsetPairs, v \in OffsetVectors(n - 1)}

\* The modes of the groups of a pattern, taken one and two at a time.
ModesOf(modes) ==
  {<<modes[i]>> : i \in 1..Len(modes)}
    \cup UNION {{<<modes[i], modes[j]>> : j \in (i + 1)..Len(modes)}
                : i \in 1..Len(modes)}

\* Each vector of V with the number of the vectors of V that precede it.
Ranked(V, modes) ==
  {<<x, Cardinality({y \in V : Precedes(y, x, modes, 1)})>> : x \in V}

\* x precedes y exactly when fewer vectors precede x than precede y.  A
\* relation is a strict weak order exactly when it has this property: the
\* property makes it irreflexive and transitive and makes incomparability
\* the equality of ranks; and in a strict weak order the predecessors of x
\* are predecessors of y and x itself is one more when x precedes y, and
\* incomparable vectors have the same predecessors.
IsRanking(ranked, modes) ==
  \A p, q \in ranked : Precedes(p[1], q[1], modes, 1) <=> p[2] < q[2]

IsStrictWeakOrder(modes) ==
  IsRanking(Ranked(OffsetVectors(Len(modes)), modes), modes)

\* C11: for every modes vector, Precedes(x, y, modes) is a strict weak order
\* on the offset vectors: irreflexive, transitive, and with a transitive
\* incomparability.  Checked for the modes of the groups of each pattern
\* of the unit tests, one and two groups at a time, on every vector of
\* offsets within the inputs.
C11_StrictWeakOrder ==
  (Compiled /\ origin = "Parse" /\ tree \in Scenarios) =>
    \A modes \in ModesOf(exp2.w.modes) : IsStrictWeakOrder(modes)

\* A pattern with a minimal group before a maximal one: the second group
\* decides between vectors that agree on the first, and the first group
\* decides against the second.
C11_Witness ==
  /\ Compiled
  /\ origin = "Parse"
  /\ tree \in Scenarios
  /\ <<kMinimal, kMaximal>> \in ModesOf(exp2.w.modes)
  /\ Precedes(<<0, 0, 0, 1>>, <<0, 0, 0, 0>>, <<kMinimal, kMaximal>>, 1)
  /\ Precedes(<<0, 0, 0, 0>>, <<0, 1, 0, 1>>, <<kMinimal, kMaximal>>, 1)
  /\ ~Precedes(<<-1, -1, 0, 1>>, <<0, 1, -1, -1>>, <<kMinimal, kMaximal>>, 1)

\* The pairs of offsets are spans of an input of n bytes, or (-1, -1).
AreSpans(offsets, n) ==
  \A k \in 1..(Len(offsets) \div 2) :
    \/ offsets[2 * k - 1] = -1 /\ offsets[2 * k] = -1
    \/ /\ 0 <= offsets[2 * k - 1]
       /\ offsets[2 * k - 1] <= offsets[2 * k]
       /\ offsets[2 * k] <= n

\* C12 (as stated): when Match on the TNFA returns true for an input, the
\* offsets are two per capturing group, and each pair is (-1, -1) or a span
\* 0 <= begin <= end <= length of the input.
C12_AsStated ==
  (Matched /\ result.tnfa) =>
    /\ Len(result.offsets) = 2 * Len(exp2.w.captures)
    /\ AreSpans(result.offsets, Len(str))

\* str is n bytes b, n >= 0.
Repeats(string, b) == \A i \in 1..Len(string) : string[i] = b

\* The matchers have run on str for the pattern with the parse tree t.
MatchedPattern(t) == Matched /\ origin = "Parse" /\ tree = t

\* The parse trees of (a*?)(a*), (a*)(a*?) and (a*)(a*).
LazyThenGreedy == Concatenation(Paren(LazyStar(Byte(97))), Paren(Star(Byte(97))))
GreedyThenLazy == Concatenation(Paren(Star(Byte(97))), Paren(LazyStar(Byte(97))))
GreedyThenGreedy == Concatenation(Paren(Star(Byte(97))), Paren(Star(Byte(97))))

\* C13: for the pattern (a*?)(a*) and every input of n bytes 'a', n >= 0,
\* the TNFA matches with offsets [0, 0, 0, n]: the first group takes nothing
\* and the second everything.
C13_LazyTakesNothing ==
  (MatchedPattern(LazyThenGreedy) /\ Repeats(str, 97)) =>
    /\ result.tnfa
    /\ result.offsets = <<0, 0, 0, Len(str)>>

\* (a*?)(a*) has matched an input of MaxLen bytes 'a'.
C13_Witness ==
  /\ MatchedPattern(LazyThenGreedy)
  /\ Repeats(str, 97)
  /\ Len(str) = MaxLen
  /\ result.offsets = <<0, 0, 0, MaxLen>>

\* C14: for the patterns (a*)(a*?) and (a*)(a*) and every input of n bytes
\* 'a', n >= 0, the TNFA matches with offsets [0, n, n, n]: the first group
\* takes the whole input.
C14_GreedyTakesAll ==
  ((MatchedPattern(GreedyThenLazy) \/ MatchedPattern(GreedyThenGreedy))
     /\ Repeats(str, 97)) =>
    /\ result.tnfa
    /\ result.offsets = <<0, Len(str), Len(str), Len(str)>>

\* (a*)(a*) has matched an input of MaxLen bytes 'a'.
C14_Witness ==
  /\ MatchedPattern(GreedyThenGreedy)
  /\ Repeats(str, 97)
  /\ Len(str) = MaxLen
  /\ result.offsets = <<0, MaxLen, MaxLen, MaxLen>>

\* The offsets of a first group that spans an input of n bytes and a second
\* group that takes no part, and the other way round.
FirstOnly(n) == <<0, n, -1, -1>>
SecondOnly(n) == <<-1, -1, 0, n>>

\* C15 (as stated): for a disjunction (A)|(B) of two capturing groups and
\* every input s that matches, group 1 reports [0, |s|] and group 2
\* [-1, -1] if s is in L(A), and only when s is not in L(A) does group 2
\* report [0, |s|] and group 1 [-1, -1].
C15_AsStated ==
  (Matched /\ origin = "Parse" /\ tree \in Alternatives /\ result.tnfa) =>
    result.offsets = IF InLang(exp2.exp.subs[1], str)
                     THEN FirstOnly(Len(str)) ELSE SecondOnly(Len(str))

\* The offsets of the one capturing group are the span of a last iteration
\* of closure on string: the span ends the input, it is in the language of
\* the body, and what is before it is in the language of the closure.
IsLastIteration(offsets, closure, string) ==
  /\ Len(offsets) = 2
  /\ 0 <= offsets[1]
  /\ offsets[1] <= offsets[2]
  /\ offsets[2] = Len(string)
  /\ InLang(ExpSub(closure), SubSeq(string, offsets[1] + 1, offsets[2]))
  /\ InLang(closure, SubSeq(string, 1, offsets[1]))

\* C16 (as stated): when a capturing group is the body of a Kleene closure,
\* a successful match of a non-empty input reports for the group the span
\* of its last iteration only; and for (a|bcdef|g|ab|c|d|e|efg|fg)* and the
\* input abcdefg the match succeeds and the group reports [6, 7].
C16_AsStated ==
  /\ (Matched /\ origin = "Parse" /\ tree \in Closures \cup {PerlSemantics}
        /\ result.tnfa /\ str # <<>>) =>
       IsLastIteration(result.offsets, ExpSub(exp2.exp), str)
  /\ (MatchedPattern(PerlSemantics) /\ str = abcdefg) =>
       result.tnfa /\ result.offsets = <<6, 7>>

\* The pattern is one capturing group around an expression.
IsWrapped(t) == t.kind = kGroup /\ GroupCapture(t) /\ GroupMode(t) = kPassive

\* C17 (as stated): if the whole pattern is a single capturing group around
\* an expression r, then for every byte string s in L(r), the empty string
\* included, the TNFA matches and reports [0, |s|] for the group.
C17_AsStated ==
  (Matched /\ origin = "Parse" /\ IsWrapped(tree) /\ InLang(ExpSub(exp2.exp), str)) =>
    /\ result.tnfa
    /\ SubSeq(result.offsets, 1, 2) = <<0, Len(str)>>

RECURSIVE GroupsUnderComplement(_, _)
\* The numbers of the capturing groups of exp that are inside a Complement,
\* under being TRUE when exp itself is inside one.
GroupsUnderComplement(exp, under) ==
  (IF exp.kind = kGroup /\ GroupCapture(exp) /\ under THEN {GroupNum(exp)} ELSE {})
    \cup UNION {GroupsUnderComplement(exp.subs[i], under \/ exp.kind = kComplement)
                : i \in 1..Len(exp.subs)}

\* The offsets reported for capture j.
OffsetsOf(offsets, j) == <<offsets[2 * j - 1], offsets[2 * j]>>

\* C18: a capturing group inside a Complement takes no part in a match: on
\* every successful TNFA match its offsets are [-1, -1].
C18_ComplementBindsNothing ==
  (Matched /\ origin = "Parse" /\ result.tnfa) =>
    \A j \in 1..Len(exp2.w.captures) :
      exp2.w.captures[j] \in GroupsUnderComplement(exp2.exp, FALSE) =>
        OffsetsOf(result.offsets, j) = <<-1, -1>>

\* (a)!(b) has matched "aa": the group outside the Complement reports its
\* span and the group inside reports none.
C18_Witness ==
  /\ MatchedPattern(Concatenation(Paren(Byte(97)), Complement(Paren(Byte(98)))))
  /\ result.tnfa
  /\ str = <<97, 97>>
  /\ result.offsets = <<0, 1, -1, -1>>

\* The state numbers of a finished builder.
StateIds(c) == 0..(Len(c.states) - 1)

\* Every state of the builder c has an accepting flag and a default
\* transition, the targets of the transitions being given by Targets.
HasEntries(c, Targets(_)) ==
  /\ \A curr \in StateIds(c) :
       /\ curr \in DOMAIN c.fa.accepting
       /\ <<curr, DefaultByte>> \in DOMAIN c.fa.transition
       /\ Targets(c.fa.transition[<<curr, DefaultByte>>]) # {}
  /\ \A key \in DOMAIN c.fa.transition :
       /\ key[1] \in StateIds(c)
       /\ Targets(c.fa.transition[key]) \subseteq StateIds(c)

\* The target of a DFA transition, and those of the TNFA transitions of a key.
DfaTargets(next) == {next}
TnfaTargets(pairs) == {pairs[i][1] : i \in 1..Len(pairs)}

\* C19: for the automata Compile returns and every byte string both matchers
\* return a boolean: every state has a default transition to fall back on
\* and an accepting flag, every transition leads to such a state, every
\* accepting TNFA state has final bindings, and so the run of the DFA on an
\* input ends in a state with an accepting flag.
C19_MatchersTotal ==
  /\ Compiled =>
       /\ HasEntries(dfa, DfaTargets)
       /\ HasEntries(tnfa, TnfaTargets)
       /\ \A curr \in StateIds(tnfa) :
            tnfa.fa.accepting[curr] => curr \in DOMAIN tnfa.fa.final
  /\ Matched =>
       /\ DfaRun(dfa.fa, 0, str, 1) \in StateIds(dfa)
       /\ \A i \in 1..Len(TnfaRun(tnfa.fa, exp2.w.modes, TnfaInitial(exp2.w.modes), str, 1)) :
            TnfaRun(tnfa.fa, exp2.w.modes, TnfaInitial(exp2.w.modes), str, 1)[i][1]
              \in StateIds(tnfa)

\* The pattern a*b on the input "\x80b": state 0 has transitions of its own
\* for 'a' and 'b' and none for 0x80, so both matchers have fallen back on
\* the default transition, and have then looked 'b' up in the error state.
C19_Witness ==
  /\ MatchedPattern(Concatenation(Star(Byte(97)), Byte(98)))
  /\ str = <<128, 98>>
  /\ ~result.dfa
  /\ ~result.tnfa
  /\ <<0, 97>> \in DOMAIN dfa.fa.transition
  /\ <<0, 128>> \notin DOMAIN dfa.fa.transition
  /\ <<0, 128>> \notin DOMAIN tnfa.fa.transition
  /\ DfaRun(dfa.fa, 0, str, 1) = dfa.fa.error

\* curr_states of Match(tnfa, str, &offsets) once the first k bytes of str
\* are consumed.
LivePaths(k) ==
  TnfaRun(tnfa.fa, exp2.w.modes, TnfaInitial(exp2.w.modes), SubSeq(str, 1, k), 1)

\* No two paths of the list are in the same state and none is in the error
\* state.
OnePathPerState(paths) ==
  /\ \A i, j \in 1..Len(paths) : paths[i][1] = paths[j][1] => i = j
  /\ \A i \in 1..Len(paths) : ~IsError(tnfa.fa, paths[i][1])

RECURSIVE LiveTransitions(_, _, _)
\* The transitions the matcher walks from the paths for one byte that do
\* not lead to the error state, counted with their repetitions.
LiveTransitions(paths, byte, i) ==
  IF i > Len(paths) THEN 0
  ELSE Cardinality({j \in 1..Len(TnfaTransitions(tnfa.fa, paths[i][1], byte)) :
                      ~IsError(tnfa.fa, TnfaTransitions(tnfa.fa, paths[i][1], byte)[j][1])})
       + LiveTransitions(paths, byte, i + 1)

\* C20: after each byte the TNFA matcher consumes, the list of live paths
\* holds at most one path per state of the automaton and none in the error
\* state, so that it is never longer than the automaton has states.
C20_OnePathPerState ==
  Matched =>
    \A k \in 1..Len(str) :
      /\ OnePathPerState(LivePaths(k))
      /\ Len(LivePaths(k)) <= Len(tnfa.states)

\* Two paths are alive after the last byte, and the matcher has left out a
\* transition to a state that was seen already in the round.
C20_Witness ==
  /\ Matched
  /\ Len(str) = MaxLen
  /\ Len(LivePaths(MaxLen)) >= 2
  /\ LiveTransitions(LivePaths(MaxLen - 1), str[MaxLen], 1) > Len(LivePaths(MaxLen))

RECURSIVE GroupsOf(_)
\* The Group nodes of exp.
GroupsOf(exp) ==
  (IF exp.kind = kGroup THEN {exp} ELSE {})
    \cup UNION {GroupsOf(exp.subs[i]) : i \in 1..Len(exp.subs)}

\* C21: the derivative of a Group node by any byte is no expression, the
\* call aborts; so the derivative interpreter aborts on the first byte of
\* its input when the expression it is handed is a Group, and never returns
\* once it has differentiated one.
C21_DerivativeOfGroupAborts ==
  /\ \A g \in GroupsOf(exp2.exp) : \A b \in Bytes : Derivative(g, b) = Aborted
  /\ (pc \in {"Returned", "Aborted"} /\ exp2.exp.kind = kGroup /\ str # <<>>)
       => pc = "Aborted"

\* The interpreter was handed (a*) with its groups and the input "a", and
\* has aborted.
C21_Witness ==
  /\ pc = "Aborted"
  /\ origin = "Parse"
  /\ tree = Paren(Star(Byte(97)))
  /\ exp2.exp.kind = kGroup
  /\ str = <<97>>

\* Every normalised alternative of the partial derivative of every state by
\* every probe byte is a state again.
ClosedUnderPartial(c) ==
  \A i \in 1..Len(c.states) : \A b \in ProbeBytes :
    \A j \in 1..Len(Partial(c.states[i], b)) :
      FindState(c.states, Normalised(Partial(c.states[i], b)[j][1]), 1) >= 0

\* C22: the expressions reachable from Normalised(e) by taking an
\* alternative of Partial by a byte and normalising it are finitely many,
\* and the TNFA worklist halts: both constructions leave their loops, and
\* the states the TNFA builder has then are closed under the normalised
\* alternatives of Partial.
C22_TnfaTerminates ==
  /\ <>(pc \notin {"CompileDFA", "CompileTNFA"})
  /\ [](pc = "Match" => ClosedUnderPartial(tnfa))

\* The TNFA worklist of an expression with groups has emptied after several
\* iterations.
C22_Witness ==
  /\ pc = "Match"
  /\ tnfa.queue = <<>>
  /\ Len(tnfa.states) >= 6
  /\ Len(exp2.w.modes) >= 2

\* The offsets of a path of the live list once the final bindings of its
\* state are applied at the end of the input.
FinalOffsets(path) ==
  ApplyBindings(tnfa.fa.final[path[1]], 1, Len(str), path[2])

\* The accepting paths of the live list at the end of the input, in the
\* order of the list.
AcceptingPaths ==
  SelectSeq(LivePaths(Len(str)), LAMBDA path : IsAccepting(tnfa.fa, path[1]))

IsSigmaBased(partitions) ==
  /\ Len(partitions) >= 1
  /\ \A i \in 2..Len(partitions) : partitions[i] # {}
  /\ \A i, j \in 2..Len(partitions) :
       i # j => partitions[i] \cap partitions[j] = {}
  /\ UNION {partitions[i] : i \in 2..Len(partitions)} = partitions[1]

\* C24: Partitions(e) is a non-empty list whose sets after the first are
\* non-empty, pairwise disjoint and have the first set as their union, so
\* that the default block and the later sets partition the 256 bytes;
\* checked on the expressions of the pattern before the first iteration
\* and, once the automata are built, on every state of both builders.
C24_PartitionsWellFormed ==
  \A e \in (IF iteration = 0 THEN {exp1, exp2.exp} ELSE {})
           \cup (IF Compiled THEN StatesOf(dfa) \cup StatesOf(tnfa) ELSE {}) :
    /\ IsSigmaBased(Partitions(e))
    /\ (Bytes \ Partitions(e)[1]) \cap Partitions(e)[1] = {}
    /\ (Bytes \ Partitions(e)[1])
         \cup UNION {Partitions(e)[i] : i \in 2..Len(Partitions(e))} = Bytes

\* The partitions of a|b: the intersection has dropped the empty meet of
\* the two byte sets and kept a set for each byte.
C24_Witness ==
  /\ Compiled
  /\ exp1 = Disjunction(Byte(97), Byte(98))
  /\ Partitions(exp1) = <<{97, 98}, {98}, {97}>>

RECURSIVE GroupNumsOf(_)
\* The numbers of the groups of exp.
GroupNumsOf(exp) ==
  (IF exp.kind = kGroup THEN {GroupNum(exp)} ELSE {})
    \cup UNION {GroupNumsOf(exp.subs[i]) : i \in 1..Len(exp.subs)}

RECURSIVE DisjunctionsOf(_)
\* The Disjunction nodes of exp.
DisjunctionsOf(exp) ==
  (IF exp.kind = kDisjunction THEN {exp} ELSE {})
    \cup UNION {DisjunctionsOf(exp.subs[i]) : i \in 1..Len(exp.subs)}

\* The alternatives of the Disjunction d that are not its leftmost nullable
\* one.
OtherAlternatives(d) ==
  {i \in 1..Len(d.subs) :
     ~IsNullable(d.subs[i]) \/ \E k \in 1..(i - 1) : IsNullable(d.subs[k])}

\* The numbers of the groups the bindings are for.
NumsOf(bindings) == {bindings[i][1] : i \in 1..Len(bindings)}

\* C25: the bindings EpsilonBindings emits for a Disjunction are Epsilon
\* bindings for groups of its leftmost nullable alternative and for no
\* group of another alternative; and on the empty input no capturing group
\* of another alternative of a Disjunction of the initial state reports a
\* span, so that of two capturing groups (A)|(B) the first reports [0, 0]
\* if A is nullable and the second only otherwise.  Checked on the
\* Disjunctions of every state of the TNFA.
C25_LeftmostNullableBinds ==
  /\ (Compiled /\ origin = "Parse") =>
       \A e \in StatesOf(tnfa) : \A d \in DisjunctionsOf(e) :
         /\ \A i \in 1..Len(EpsilonBindings(d)) : EpsilonBindings(d)[i][2] = kEpsilon
         /\ \A i \in OtherAlternatives(d) :
              NumsOf(EpsilonBindings(d)) \cap GroupNumsOf(d.subs[i]) = {}
         /\ \A i \in (1..Len(d.subs)) \ OtherAlternatives(d) :
              NumsOf(EpsilonBindings(d)) \subseteq GroupNumsOf(d.subs[i])
  /\ (Matched /\ origin = "Parse" /\ str = <<>> /\ result.tnfa) =>
       /\ \A d \in DisjunctionsOf(tnfa.states[1]) : \A i \in OtherAlternatives(d) :
            \A j \in 1..Len(exp2.w.captures) :
              exp2.w.captures[j] \in GroupNumsOf(d.subs[i]) =>
                OffsetsOf(result.offsets, j) = <<-1, -1>>
       /\ tree \in Alternatives =>
            result.offsets = IF IsNullable(exp2.exp.subs[1])
                             THEN FirstOnly(0) ELSE SecondOnly(0)

\* (?:(a*)|(a*?))(a*) has matched the empty input: both alternatives are
\* nullable, the group of the first reports [0, 0] and the group of the
\* second reports none.
C25_Witness ==
  /\ MatchedPattern(Concatenation(
                      NonCapture(Disjunction(Paren(Star(Byte(97))),
                                             Paren(LazyStar(Byte(97))))),
                      Paren(Star(Byte(97)))))
  /\ str = <<>>
  /\ result.tnfa
  /\ result.offsets = <<0, 0, -1, -1, 0, 0>>

\* The state the builder c recorded as the error state is the state of the
\* empty set, has the accepting flag false and has transitions, all of them
\* to itself; Targets gives the targets of the transitions of a key.
IsSink(c, Targets(_)) ==
  /\ ExpEq(c.states[c.fa.error + 1], EmptySet)
  /\ c.fa.accepting[c.fa.error] = FALSE
  /\ <<c.fa.error, DefaultByte>> \in DOMAIN c.fa.transition
  /\ \A key \in DOMAIN c.fa.transition :
       key[1] = c.fa.error => Targets(c.fa.transition[key]) = {c.fa.error}

\* The automaton with no state recorded as the error state: the matcher
\* drops no path on it.
WithoutError(fa) == [fa EXCEPT !.error = EmptyFA.error]

\* C26: in both automata the state recorded as the error state, that of
\* the empty set, is not accepting and every transition out of it leads
\* back to it; the DFA accepts no input whose run enters it; and the TNFA
\* matcher returns the same boolean and the same offsets when it keeps the
\* paths that enter it.
C26_ErrorIsSink ==
  /\ Compiled =>
       /\ dfa.fa.error # EmptyFA.error => IsSink(dfa, DfaTargets)
       /\ tnfa.fa.error # EmptyFA.error => IsSink(tnfa, TnfaTargets)
  /\ Matched =>
       /\ (\E k \in 0..Len(str) :
             DfaRun(dfa.fa, 0, SubSeq(str, 1, k), 1) = dfa.fa.error) => ~result.dfa
       /\ MatchTNFA(WithoutError(tnfa.fa), exp2.w.modes, exp2.w.captures, str)
            = [match |-> result.tnfa, offsets |-> result.offsets]

\* The TNFA has matched an input of two bytes after it dropped a path that
\* entered the error state on the second byte.
C26_Witness ==
  /\ Matched
  /\ result.tnfa
  /\ Len(str) = 2
  /\ tnfa.fa.error # EmptyFA.error
  /\ \E i \in 1..Len(LivePaths(1)) :
       tnfa.fa.error \in TnfaTargets(TnfaTransitions(tnfa.fa, LivePaths(1)[i][1], str[2]))

\* C27: when Compile has returned, the accepting flag of every state is
\* IsNullable of the state's expression; the TNFA has final bindings for
\* exactly the nullable states, and they are EpsilonBindings of the state's
\* expression; the DFA has no final bindings.
C27_AcceptingIsNullable ==
  Compiled =>
    /\ \A i \in 1..Len(dfa.states) :
         dfa.fa.accepting[i - 1] = IsNullable(dfa.states[i])
    /\ DOMAIN dfa.fa.final = {}
    /\ \A i \in 1..Len(tnfa.states) :
         /\ tnfa.fa.accepting[i - 1] = IsNullable(tnfa.states[i])
         /\ (i - 1) \in DOMAIN tnfa.fa.final <=> IsNullable(tnfa.states[i])
         /\ IsNullable(tnfa.states[i]) =>
              tnfa.fa.final[i - 1] = EpsilonBindings(tnfa.states[i])

\* The TNFA of (a*)(a*?) has a nullable state with final bindings and a
\* state that is not nullable and has no final bindings.
C27_Witness ==
  /\ Compiled
  /\ tree = GreedyThenLazy
  /\ \E i \in StateIds(tnfa) :
       tnfa.fa.accepting[i] /\ tnfa.fa.final[i] # <<>>
  /\ \E i \in StateIds(tnfa) :
       ~tnfa.fa.accepting[i] /\ i \notin DOMAIN tnfa.fa.final

\* The states of the finished builder c, compiled from start, are pairwise
\* different expressions, the first being the normalised start; the ids with
\* an accepting flag and those with partitions are 0..n-1, n being
\* states.size(), the value Compile returns; every transition leads to one
\* of them and every one but the first is the target of a transition.
IsNumbered(c, start, Targets(_)) ==
  /\ \A i, j \in 1..Len(c.states) : ExpEq(c.states[i], c.states[j]) => i = j
  /\ ExpEq(c.states[1], Normalised(start))
  /\ DOMAIN c.fa.accepting = StateIds(c)
  /\ DOMAIN c.fa.partitions = StateIds(c)
  /\ \A key \in DOMAIN c.fa.transition :
       key[1] \in StateIds(c) /\ Targets(c.fa.transition[key]) \subseteq StateIds(c)
  /\ \A id \in StateIds(c) \ {0} :
       \E key \in DOMAIN c.fa.transition : id \in Targets(c.fa.transition[key])

\* C28: when both calls of Compile have returned, each has numbered the
\* distinct normalised expressions it reached 0..n-1, from the normalised
\* start expression on, n being the number of states it returns, and every
\* transition leads to one of them; every iteration of the loop expands an
\* id that was not expanded before, and the loop has run n times when it
\* ends, so that each id is expanded exactly once.
C28_StatesNumbered ==
  /\ Compiled =>
       /\ IsNumbered(dfa, exp1, DfaTargets)
       /\ IsNumbered(tnfa, exp2.exp, TnfaTargets)
       /\ iteration = Len(dfa.states) + Len(tnfa.states)
  /\ pc = "CompileDFA" => Cardinality(DOMAIN dfa.fa.partitions) = iteration
  /\ pc = "CompileTNFA" =>
       Cardinality(DOMAIN tnfa.fa.partitions) = iteration - Len(dfa.states)

\* Both calls have returned, each with more than one state, and in both
\* automata a state other than the first has a transition to the first: the
\* start expression has been reached again as a successor.
C28_Witness ==
  /\ Compiled
  /\ Len(dfa.states) > 1
  /\ Len(tnfa.states) > 1
  /\ \E key \in DOMAIN dfa.fa.transition :
       key[1] # 0 /\ dfa.fa.transition[key] = 0
  /\ \E key \in DOMAIN tnfa.fa.transition :
       key[1] # 0 /\ 0 \in TnfaTargets(tnfa.fa.transition[key])

\* C29: when Compile(exp1, &dfa) has returned, the DFA has no transition for
\* a byte of a state whose target is the target of the default transition of
\* that state.
C29_AsStated ==
  Compiled =>
    \A key \in DOMAIN dfa.fa.transition :
      key[2] # DefaultByte =>
        dfa.fa.transition[key] # dfa.fa.transition[<<key[1], DefaultByte>>]

\* Alternative i of PartialConcatenation(x, tail, initial) is, up to
\* normalisation, the concatenation of the conjunction of alternative i of x
\* with tail, and has initial in front of the bindings of alternative i of x.
ConcatenatedAsAWhole(x, tail, initial, out) ==
  /\ Len(out) = Len(x)
  /\ \A i \in 1..Len(x) :
       /\ ExpEq(Normalised(out[i][1]),
                Normalised(ConjunctionN(<<Concatenation(x[i][1], tail)>>, FALSE)))
       /\ out[i][2] = initial \o x[i][2]

\* C30 (as stated): for every state of the TNFA that is a concatenation and
\* every byte, PartialConcatenation applied to the alternatives of the
\* partial derivative of the head, the tail and bindings replaces each
\* alternative (e, bindings) by the conjunction whose only member is
\* Concatenation(e, tail) and puts the initial bindings in front.
C30_AsStated ==
  Compiled =>
    \A e \in StatesOf(tnfa) :
      e.kind = kConcatenation =>
        \A b \in ProbeBytes :
          \A initial \in {<<>>, EpsilonBindings(ExpHead(e))} :
            LET x == Partial(ExpHead(e), b)
            IN ConcatenatedAsAWhole(x, ExpTail(e), initial,
                                    PartialConcatenation(x, ExpTail(e), initial))

====
